---- MODULE Spec2Model ----
(***************************************************************************)
(* A model of QisJob (src/qisjob/qisjob.pyx) and of the qisjob driver      *)
(* script: the configuration held by a QisJob instance, backend selection, *)
(* the submission paths one_exp / multi_exps / qasm_exp, the result        *)
(* formatter formulate_result / process_result / csv_str, and the driver's *)
(* exit-code mapping.                                                      *)
(*                                                                         *)
(* Python values are modelled with one TLA+ type per field: None of a      *)
(* string-valued field is the string "None"; a text line is a sequence of  *)
(* one-token strings; an exception is a record (type, retval, message).    *)
(* External collaborators (Qiskit providers, backends, jobs, results) are  *)
(* the environment: what they answer is drawn from small sets.             *)
(***************************************************************************)
EXTENDS Integers, Sequences, FiniteSets, TLC

VARIABLES
    self,       \* the QisJob instance: its member fields
    backends,   \* what the remote provider lists: a sequence of backend records
    stdout,     \* lines printed on sys.stdout, in order
    outfile,    \* content of the file at outfile_path, a sequence of lines
    sink,       \* the lines written through the output handle ofh, in order
    handles,    \* file handles currently open (never sys.stdin / sys.stdout)
    calls,      \* calls made to the external collaborators, in order
    raised,     \* the exception the running operation ended with, or NoExc
    ret,        \* what formulate_result / qasm_exp last returned
    figures,    \* image files written by save_fig, in order
    clock,      \* datetime.datetime.now(): advances with every reading
    jobs,       \* the jobs execute has created, in order, each with its outcome
    pc,         \* where the caller of the instance is
    last,       \* the operation of the instance that ended last
    args,       \* the arguments of the last formulate_result / process_result
    idx,        \* do_it's position in its loop over filepaths
    EXITVAL     \* the driver's exit status, -1 while the process runs

vars == <<self, backends, stdout, outfile, sink, handles, calls, raised, ret, figures,
          clock, jobs, pc, last, args, idx, EXITVAL>>

-----------------------------------------------------------------------------
(* Bounds of the model *)

\* the number of input files on the command line goes up to MaxFiles
MaxFiles == 2

\* choose_backend is called up to MaxChoices times on one instance
MaxChoices == 2

-----------------------------------------------------------------------------
(* Python values *)

None == "None"

\* truth value of a str-or-None field
Truthy(v) == v # None /\ v # ""

\* str.upper() on the provider names the callers pass
upper(s) ==
    CASE s \in {"IBMQ", "ibmq", "Ibmq"} -> "IBMQ"
      [] s \in {"QI", "qi"} -> "QI"
      [] s \in {"Forest", "forest", "FOREST"} -> "FOREST"
      [] s \in {"JKU", "jku"} -> "JKU"
      [] OTHER -> s

\* str(int) for a natural number: its decimal digits, most significant first
Digit(d) == <<"0", "1", "2", "3", "4", "5", "6", "7", "8", "9">>[d + 1]

RECURSIVE str(_)
str(n) == IF n < 10 THEN <<Digit(n)>> ELSE str(n \div 10) \o <<Digit(n % 10)>>

\* the characters of a classical bit pattern such as 011
BitChar(b) == IF b = 0 THEN "0" ELSE "1"

KeyChars(key) == [i \in 1..Len(key) |-> BitChar(key[i])]

\* Python's order on str, here on bit patterns: lexicographic, a proper
\* prefix before its extensions
RECURSIVE StrLess(_, _)
StrLess(a, b) ==
    IF b = <<>> THEN FALSE
    ELSE IF a = <<>> THEN TRUE
    ELSE IF Head(a) # Head(b) THEN Head(a) < Head(b)
    ELSE StrLess(Tail(a), Tail(b))

\* Insert with the comparison turned round
RECURSIVE InsertDescending(_, _)
InsertDescending(k, s) ==
    IF s = <<>> THEN <<k>>
    ELSE IF StrLess(Head(s), k) THEN <<k>> \o s
    ELSE <<Head(s)>> \o InsertDescending(k, Tail(s))

\* sorted(iterable of str): insertion of the elements one by one
RECURSIVE Insert(_, _)
Insert(k, s) ==
    IF s = <<>> THEN <<k>>
    ELSE IF StrLess(k, Head(s)) THEN <<k>> \o s
    ELSE <<Head(s)>> \o Insert(k, Tail(s))

RECURSIVE sorted(_)
sorted(S) ==
    IF S = {} THEN <<>>
    ELSE LET k == CHOOSE x \in S : TRUE IN Insert(k, sorted(S \ {k}))

-----------------------------------------------------------------------------
(* Exceptions *)

NoExc == [type |-> "None", retval |-> 0, message |-> <<>>]

\* class QisJobException(Exception): message and suggested return value
QisJobException(type, message, retval) ==
    [type |-> type, retval |-> retval, message |-> message]

QisJobArgumentException(message) ==
    QisJobException("QisJobArgumentException", message, 1)

QisJobRuntimeException(message) ==
    QisJobException("QisJobRuntimeException", message, 100)

\* an exception of the Qiskit ecosystem or of Python itself; it has no retval
Foreign(type, message) == [type |-> type, retval |-> 0, message |-> message]

IsQisJobException(e) ==
    e.type \in {"QisJobException", "QisJobArgumentException", "QisJobRuntimeException"}

\* QiskitBackendNotFoundError, IBMQJobFailureError and QasmError derive from
\* QiskitError
IsQiskitError(e) ==
    e.type \in {"QiskitError", "QiskitBackendNotFoundError", "IBMQJobFailureError",
                "QasmError"}

-----------------------------------------------------------------------------
(* Backends, circuits and results: the external collaborators *)

NoBackend ==
    [family |-> "None", name |-> None, n_qubits |-> 0, simulator |-> FALSE,
     pending_jobs |-> 0]

\* a backend a remote provider lists
Device(name, n, sim, pending) ==
    [family |-> "Provider", name |-> name, n_qubits |-> n, simulator |-> sim,
     pending_jobs |-> pending]

\* Aer.get_backend(name): the local simulator of that kind
AerBackend(name) ==
    [family |-> "Aer", name |-> name, n_qubits |-> 32, simulator |-> TRUE,
     pending_jobs |-> 0]

\* ForestBackend.get_backend(name, as_qvm): the local qvm
ForestQvm(name, as_qvm) ==
    [family |-> "Forest", name |-> name,
     n_qubits |-> 32, simulator |-> TRUE, pending_jobs |-> 0]

\* str(backend)
BackendStr(b) == b.name

\* the outcome keys a result can hold: classical bit patterns
Keys == {<<0, 0>>, <<0, 1>>, <<1, 0>>, <<1, 1>>}

\* the occurrence counts a key can have (1024 is the default shot count)
CountVals == {7, 1024}

\* result_exp.data(circ): 'counts' is present only when a measurement was taken
Data(has_counts, counts, has_sv) ==
    [has_counts |-> has_counts, counts |-> counts, has_statevector |-> has_sv]

NoCounts == [k \in {} |-> 0]

\* every counts mapping of a measured circuit: shots >= 1, so at least one key
CountsMaps == UNION {[K -> CountVals] : K \in (SUBSET Keys) \ {{}}}

\* the data a backend returns for one circuit; only the Aer statevector
\* simulator returns a statevector
DataOf(backend, CM) ==
    LET sv == backend.family = "Aer" /\ backend.name = "statevector_simulator"
    IN  {Data(FALSE, NoCounts, sv)} \cup {Data(TRUE, c, sv) : c \in CM}

-----------------------------------------------------------------------------
(* The running program: the instance and what it has written so far *)

M == [self |-> self, stdout |-> stdout, outfile |-> outfile, sink |-> sink,
      handles |-> handles, calls |-> calls, raised |-> raised,
      figures |-> figures, clock |-> clock, jobs |-> jobs]

Set(m) ==
    /\ self' = m.self
    /\ stdout' = m.stdout
    /\ outfile' = m.outfile
    /\ sink' = m.sink
    /\ handles' = m.handles
    /\ calls' = m.calls
    /\ raised' = m.raised
    /\ figures' = m.figures
    /\ clock' = m.clock
    /\ jobs' = m.jobs

Raise(m, e) == [m EXCEPT !.raised = e]

Call(m, what) == [m EXCEPT !.calls = Append(@, what)]

\* ofh.write(line + '\n') on sys.stdout or on the open output file
Write(m, ofh, line) ==
    IF ofh = "stdout"
    THEN [m EXCEPT !.stdout = Append(@, line), !.sink = Append(@, line)]
    ELSE IF ofh = "outfile"
    THEN [m EXCEPT !.outfile = Append(@, line), !.sink = Append(@, line)]
    ELSE Raise(m, Foreign("AttributeError", <<"write">>))

\* self._pp.pprint(x): the pretty printer writes to sys.stdout
pprint(m, line) == [m EXCEPT !.stdout = Append(@, line)]

\* datetime.datetime.now().isoformat()
isoformat(t) == "T" \o ToString(t)

Tick(m) == [m EXCEPT !.clock = @ + 1]

-----------------------------------------------------------------------------
(* The result formatter *)

\* QisJob.csv_str: description, the keys each followed by ';', the counts each
\* followed by ';'
RECURSIVE JoinKeys(_)
JoinKeys(sort_keys) ==
    IF sort_keys = <<>> THEN <<>>
    ELSE KeyChars(Head(sort_keys)) \o <<";">> \o JoinKeys(Tail(sort_keys))

\* JoinCounts as ';'.join would do it: no ';' after the last count
RECURSIVE JoinCountsBetween(_)
JoinCountsBetween(sort_counts) ==
    IF sort_counts = <<>> THEN <<>>
    ELSE IF Len(sort_counts) = 1 THEN str(Head(sort_counts))
    ELSE str(Head(sort_counts)) \o <<";">> \o JoinCountsBetween(Tail(sort_counts))

RECURSIVE JoinCounts(_)
JoinCounts(sort_counts) ==
    IF sort_counts = <<>> THEN <<>>
    ELSE str(Head(sort_counts)) \o <<";">> \o JoinCounts(Tail(sort_counts))

csv_str(description, sort_keys, sort_counts) ==
    <<description, JoinKeys(sort_keys), JoinCounts(sort_counts)>>

\* the value formulate_result returns: None, or the list csv_str built
NoneOutput == [none |-> TRUE, csv |-> <<>>]

SomeOutput(csv) == [none |-> FALSE, csv |-> csv]

\* Python's truth value of that return value
OutputTruthy(output) == ~output.none /\ Len(output.csv) > 0

\* circ.qasm() + '\n', the circuit's OpenQASM text
QasmText(circ) == <<"OPENQASM", circ>>

\* has_counts taking the data to hold counts always
has_counts_always(data) == TRUE

\* 'counts' in result_exp.data(circ)
has_counts(data) == data.has_counts

\* for i in sorted_keys: sorted_counts.append(counts_exp.get(i))
SortedCounts(counts_exp, sorted_keys) ==
    [i \in 1..Len(sorted_keys) |-> counts_exp[sorted_keys[i]]]

\* QisJob.formulate_result(result_exp, circ, ofh): the machine afterwards and
\* the returned output
formulate_result(m, result_exp, circ, ofh) ==
    LET data == result_exp[circ]
        m1 == IF m.self.qasm /\ ofh # None THEN Write(m, ofh, QasmText(circ)) ELSE m
        m2 == IF m.self.memory THEN pprint(m1, <<"data", circ>>) ELSE m1
        wants_sv == m.self.use_aer
                    /\ m.self.local_simulator_type = "statevector_simulator"
        m3 == IF ~wants_sv THEN m2
              ELSE IF data.has_statevector THEN pprint(m2, <<"statevector", circ>>)
              ELSE Raise(m2, Foreign("QiskitError", <<"No statevector">>))
    IN  IF m3.raised # NoExc THEN [m |-> m3, output |-> NoneOutput]
        ELSE IF has_counts(data)
        THEN LET counts_exp == data.counts
                 sorted_keys == sorted(DOMAIN counts_exp)
                 sorted_counts == SortedCounts(counts_exp, sorted_keys)
                 description == <<BackendStr(m.self.backend), " ", isoformat(m3.clock)>>
             IN  [m |-> Tick(m3),
                  output |-> SomeOutput(csv_str(description, sorted_keys, sorted_counts))]
        ELSE [m |-> m3, output |-> NoneOutput]

\* QisJob.fig_name_str and QisJob.save_fig: the image file's name
save_fig(m, filepath, backend, tail) ==
    Tick([m EXCEPT !.figures =
            Append(@, <<filepath, "_", BackendStr(backend), "_", isoformat(m.clock),
                        ".", tail>>)])

\* QisJob.state_city_plot: get_statevector raises when the result holds none
state_city_plot(m, result_exp, circ) ==
    IF result_exp[circ].has_statevector
    THEN save_fig(m, m.self.figure_basename, m.self.backend, "state_city.png")
    ELSE Raise(m, Foreign("QiskitError", <<"No statevector">>))

\* QisJob.do_histogram: get_counts raises when the result holds none
do_histogram(m, result_exp, circ) ==
    IF result_exp[circ].has_counts
    THEN save_fig(m, m.self.figure_basename, m.self.backend, "histogram.png")
    ELSE Raise(m, Foreign("QiskitError", <<"No counts">>))

\* for line in output: ofh.write(line + '\n')
RECURSIVE WriteLines(_, _, _)
WriteLines(m, ofh, lines) ==
    IF lines = <<>> \/ m.raised # NoExc THEN m
    ELSE WriteLines(Write(m, ofh, Head(lines)), ofh, Tail(lines))

\* QisJob.process_result(result_exp, circ, ofh)
process_result(m, result_exp, circ, ofh) ==
    LET f == formulate_result(m, result_exp, circ, ofh)
    IN  IF f.m.raised # NoExc THEN f.m
        ELSE IF ~OutputTruthy(f.output) THEN f.m
        ELSE LET m1 == WriteLines(f.m, ofh, f.output.csv)
                 m2 == IF m1.raised = NoExc /\ m1.self.print_state_city # 0
                       THEN state_city_plot(m1, result_exp, circ) ELSE m1
                 m3 == IF m2.raised = NoExc /\ m2.self.print_histogram
                       THEN do_histogram(m2, result_exp, circ) ELSE m2
             IN  m3

-----------------------------------------------------------------------------
(* The QisJob instance *)

\* the defaults of QisJob.__init__'s keyword arguments; filepaths None and
\* jobs_status None are the empty list and 0 (equally false)
Defaults ==
    [filepaths |-> <<>>, qasm_src |-> None,
     provider_name |-> "IBMQ", backend_name |-> None,
     token |-> None, url |-> None, nuqasm2 |-> None,
     num_qubits |-> 5, shots |-> 1024, max_credits |-> 3,
     outfile_path |-> None, one_job |-> FALSE, qasm |-> FALSE,
     use_aer |-> FALSE, use_qasm_simulator |-> FALSE,
     use_unitary_simulator |-> FALSE, use_statevector_gpu |-> FALSE,
     use_unitary_gpu |-> FALSE, use_density_matrix_gpu |-> FALSE,
     use_sim |-> FALSE, qvm |-> FALSE, qvm_as |-> FALSE,
     qc_name |-> None, xpile |-> FALSE, showsched |-> FALSE,
     circuit_layout |-> FALSE, optimization_level |-> 1,
     print_job |-> FALSE, memory |-> FALSE, show_result |-> FALSE,
     jobs_status |-> 0, job_id |-> None, job_result |-> None,
     show_backends |-> FALSE, show_configuration |-> FALSE,
     show_properties |-> FALSE, show_statuses |-> FALSE, date_time |-> None,
     print_histogram |-> FALSE, print_state_city |-> 0,
     figure_basename |-> "figout", show_q_version |-> FALSE, verbose |-> 0,
     show_qisjob_version |-> FALSE, use_job_monitor |-> FALSE,
     job_monitor_filepath |-> None]

\* the fields do_it and its callees write: the session of the instance
SessionFields ==
    {"provider", "backend", "local_simulator_type", "method", "qasm_result",
     "result_exp_dict"}

\* QisJob.__init__: every keyword argument is stored as given, but for the
\* provider name, which is upper-cased; the session fields start unset
__init__(kw) ==
    [f \in (DOMAIN kw) \cup SessionFields |->
        CASE f = "provider_name" -> upper(kw.provider_name)
          [] f = "provider" -> None
          [] f = "backend" -> NoBackend
          [] f = "local_simulator_type" -> "statevector_simulator"
          [] f = "method" -> None
          [] f = "qasm_result" -> NoneOutput
          [] f = "result_exp_dict" -> <<>>
          [] OTHER -> kw[f]]

-----------------------------------------------------------------------------
(* The provider gateway *)

\* QisJob.ibmq_account_fu: enable the account of the token, or load the stored
\* one; acct says whether stored credentials exist
ibmq_account_fu(m, acct) ==
    IF Truthy(m.self.token)
    THEN [Call(m, "IBMQ.enable_account") EXCEPT !.self.provider = "IBMQ"]
    ELSE IF acct = "stored"
    THEN [Call(m, "IBMQ.load_account") EXCEPT !.self.provider = "IBMQ"]
    ELSE Raise(Call(m, "IBMQ.load_account"),
               QisJobRuntimeException(<<"Error loading IBMQ Account">>))

\* QisJob.qi_account_fu
qi_account_fu(m) ==
    LET m1 == IF Truthy(m.self.token) THEN Call(m, "qi_enable_account") ELSE m
    IN  [Call(m1, "QI.set_authentication") EXCEPT !.self.provider = "QI"]

\* QisJob.forest_account_fu
forest_account_fu(m) == [m EXCEPT !.self.provider = "ForestBackend"]

\* QisJob.jku_account_fu
jku_account_fu(m) == [Call(m, "JKUProvider") EXCEPT !.self.provider = "JKUProvider"]

\* QisJob.account_fu: the provider family named by provider_name
account_fu(m, acct) ==
    LET m0 == Call(m, "account_fu")
    IN  IF m.self.provider_name = "IBMQ" THEN ibmq_account_fu(m0, acct)
        ELSE IF m.self.provider_name = "QI" THEN qi_account_fu(m0)
        ELSE IF m.self.provider_name = "Forest" THEN forest_account_fu(m0)
        ELSE IF m.self.provider_name = "JKU" THEN jku_account_fu(m0)
        ELSE m0

\* self.provider.backends(): the provider's list; without a provider the
\* attribute access on None fails
provider_backends(m) ==
    IF m.self.provider = None
    THEN Raise(m, Foreign("AttributeError", <<"backends">>))
    ELSE Call(m, "provider.backends")

Found(name) == {i \in 1..Len(backends) : backends[i].name = name}

\* self.backend = self.provider.get_backend(name); the provider raises
\* QiskitBackendNotFoundError for a name it does not list
get_backend(m, name) ==
    LET m1 == Call(m, "provider.get_backend")
    IN  IF m.self.provider = None
        THEN Raise(m, Foreign("AttributeError", <<"get_backend">>))
        ELSE IF Found(name) = {}
        THEN Raise(m1, Foreign("QiskitBackendNotFoundError", <<name>>))
        ELSE [m1 EXCEPT !.self.backend = backends[CHOOSE i \in Found(name) : TRUE]]

\* get_named_backend without its except clause
get_named_backend_uncaught(m) == get_backend(m, m.self.backend_name)

\* the try/except around get_backend(self.backend_name) in do_it and in
\* choose_backend
get_named_backend(m) ==
    LET m1 == get_backend(m, m.self.backend_name)
    IN  IF m1.raised.type = "QiskitBackendNotFoundError"
        THEN Raise(m1, QisJobRuntimeException(
                <<"Backend", m.self.backend_name, "not found">> \o m1.raised.message))
        ELSE m1

-----------------------------------------------------------------------------
(* The backend selector *)

\* the positions of the listed backends with that many qubits or more
RECURSIVE SelectSeq2(_, _)
SelectSeq2(s, n) ==
    IF s = <<>> THEN <<>>
    ELSE IF Head(s).n_qubits >= n /\ ~Head(s).simulator
    THEN <<Head(s)>> \o SelectSeq2(Tail(s), n)
    ELSE SelectSeq2(Tail(s), n)

\* qiskit.providers.ibmq.least_busy: the first backend of the list with the
\* fewest pending jobs
least_busy(devs) ==
    devs[CHOOSE i \in 1..Len(devs) :
            /\ \A j \in 1..Len(devs) : devs[i].pending_jobs <= devs[j].pending_jobs
            /\ \A j \in 1..(i - 1) : devs[j].pending_jobs > devs[i].pending_jobs]

\* FirstFit going through the whole list: the last backend large enough
LastFit(n) == {i \in 1..Len(backends) :
                 /\ backends[i].n_qubits >= n
                 /\ \A j \in (i + 1)..Len(backends) : backends[j].n_qubits < n}

\* the for loop of the QI branch: the first listed backend that is large enough
FirstFit(n) == {i \in 1..Len(backends) :
                  /\ backends[i].n_qubits >= n
                  /\ \A j \in 1..(i - 1) : backends[j].n_qubits < n}

\* the kind of local simulator the flags select (__init__ set the default)
choose_simulator(m) ==
    IF m.self.use_qasm_simulator
    THEN [m EXCEPT !.self.local_simulator_type = "qasm_simulator"]
    ELSE IF m.self.use_unitary_simulator
    THEN [m EXCEPT !.self.local_simulator_type = "unitary_simulator"]
    ELSE m

\* choose_method taking the flag it has read back
choose_method_consuming(m) ==
    IF m.self.use_statevector_gpu
    THEN [m EXCEPT !.self.method = "statevector_gpu",
                   !.self.use_statevector_gpu = FALSE]
    ELSE IF m.self.use_unitary_gpu
    THEN [m EXCEPT !.self.method = "unitary_gpu", !.self.use_unitary_gpu = FALSE]
    ELSE IF m.self.use_density_matrix_gpu
    THEN [m EXCEPT !.self.method = "density_matrix_gpu",
                   !.self.use_density_matrix_gpu = FALSE]
    ELSE m

\* the method kwarg for gpu the flags select
choose_method(m) ==
    IF m.self.use_statevector_gpu THEN [m EXCEPT !.self.method = "statevector_gpu"]
    ELSE IF m.self.use_unitary_gpu THEN [m EXCEPT !.self.method = "unitary_gpu"]
    ELSE IF m.self.use_density_matrix_gpu
    THEN [m EXCEPT !.self.method = "density_matrix_gpu"]
    ELSE m

\* remote_rule asking for the simulator before the backend name
remote_rule_sim_first(slf) ==
    IF slf.use_sim THEN "use_sim"
    ELSE IF Truthy(slf.backend_name) THEN "backend_name"
    ELSE IF slf.provider_name = "QI" THEN "QI"
    ELSE "least_busy"

\* the if / elif chain that picks the way a remote backend is looked up
remote_rule(slf) ==
    IF Truthy(slf.backend_name) THEN "backend_name"
    ELSE IF slf.use_sim THEN "use_sim"
    ELSE IF slf.provider_name = "QI" THEN "QI"
    ELSE "least_busy"

\* the branch of choose_backend that asks the remote provider
choose_remote(m, acct) ==
    LET m1 == account_fu(m, acct)
        m2 == IF m1.raised # NoExc THEN m1 ELSE provider_backends(m1)
        rule == remote_rule(m2.self)
        m3 == Call(m2, "provider.backends")
        large_enough_devices == SelectSeq2(backends, m3.self.num_qubits)
    IN  IF m2.raised # NoExc THEN m2
        ELSE IF rule = "backend_name" THEN get_named_backend(m2)
        ELSE IF rule = "use_sim" THEN get_backend(m2, "ibmq_qasm_simulator")
        ELSE IF rule = "QI"
        THEN IF FirstFit(m3.self.num_qubits) = {}
             THEN Raise(m3, QisJobRuntimeException(<<"No suitable backend found">>))
             ELSE [m3 EXCEPT !.self.backend =
                     backends[CHOOSE i \in FirstFit(m3.self.num_qubits) : TRUE]]
        ELSE IF large_enough_devices = <<>>
        THEN Raise(m3, QisJobRuntimeException(<<"QiskitError no device found">>))
        ELSE [m3 EXCEPT !.self.backend = least_busy(large_enough_devices)]

\* unbind leaving the backend of an earlier call
unbind_not(m) == m

\* self.backend = None, the first statement of choose_backend
unbind(m) == [m EXCEPT !.self.backend = NoBackend]

\* choose_backend connecting to the provider before it looks at use_aer
choose_backend_connected(m, acct) ==
    LET m0 == account_fu(choose_method(choose_simulator(unbind(m))), acct)
    IN  IF m0.raised # NoExc THEN m0
        ELSE IF m0.self.use_aer
        THEN [Call(m0, "Aer.get_backend") EXCEPT
                !.self.backend = AerBackend(m0.self.local_simulator_type)]
        ELSE IF m0.self.qvm \/ m0.self.qvm_as
        THEN [Call(m0, "ForestBackend.get_backend") EXCEPT
                !.self.backend = ForestQvm(m0.self.backend_name, m0.self.qvm_as)]
        ELSE choose_remote(m0, acct)

\* QisJob.choose_backend
choose_backend(m, acct) ==
    LET m0 == choose_method(choose_simulator(unbind(m)))
    IN  IF m0.self.use_aer
        THEN [Call(m0, "Aer.get_backend") EXCEPT
                !.self.backend = AerBackend(m0.self.local_simulator_type)]
        ELSE IF m0.self.qvm \/ m0.self.qvm_as
        THEN [Call(m0, "ForestBackend.get_backend") EXCEPT
                !.self.backend = ForestQvm(m0.self.backend_name, m0.self.qvm_as)]
        ELSE choose_remote(m0, acct)

-----------------------------------------------------------------------------
(* Initial states *)

NoArgs == [result_exp |-> [c \in {} |-> 0], circ |-> None, ofh |-> None]

\* a QisJob just constructed from the keyword arguments kw, nothing run yet
Fresh(kw) ==
    [self |-> __init__(kw), stdout |-> <<>>, outfile |-> <<>>, sink |-> <<>>,
     handles |-> {}, calls |-> <<>>, raised |-> NoExc, figures |-> <<>>,
     clock |-> 0, jobs |-> <<>>]

\* the variables hold machine m, and no operation has been called on it
Start(m) ==
    /\ self = m.self
    /\ stdout = m.stdout
    /\ outfile = m.outfile
    /\ sink = m.sink
    /\ handles = m.handles
    /\ calls = m.calls
    /\ raised = m.raised
    /\ figures = m.figures
    /\ clock = m.clock
    /\ jobs = m.jobs
    /\ ret = NoneOutput
    /\ pc = "ready"
    /\ last = None
    /\ args = NoArgs
    /\ idx = 0
    /\ EXITVAL = -1

\* the backends of the remote provider
Sim32 == Device("ibmq_qasm_simulator", 32, TRUE, 3)
Dev5 == Device("dev5", 5, FALSE, 1)
Dev7 == Device("dev7", 7, FALSE, 2)

RECURSIVE Orderings(_)
Orderings(S) ==
    IF S = {} THEN {<<>>}
    ELSE UNION {{<<x>> \o t : t \in Orderings(S \ {x})} : x \in S}

\* every list a provider can answer: some of its backends, in some order
Listings == UNION {Orderings(S) : S \in SUBSET {Sim32, Dev5, Dev7}}

-----------------------------------------------------------------------------
(* The result formatter called on a bound instance *)

\* the configurations whose results are formatted: the output flags vary, and
\* the backend is a local simulator of either kind or a named remote device
ReportConfigs ==
    {[Defaults EXCEPT !.qasm = q, !.memory = mem, !.print_histogram = h,
                      !.print_state_city = sc, !.use_aer = b[1],
                      !.use_qasm_simulator = b[2], !.backend_name = b[3]] :
        q \in BOOLEAN, mem \in BOOLEAN, h \in BOOLEAN, sc \in {0, 3},
        b \in {<<TRUE, FALSE, None>>, <<TRUE, TRUE, None>>, <<FALSE, FALSE, "dev7">>}}

InitReport ==
    /\ backends = <<Sim32, Dev5, Dev7>>
    /\ \E kw \in ReportConfigs :
          LET m == choose_backend(Fresh(kw), "stored")
          IN  Start([m EXCEPT !.calls = <<>>])

Circuits == {"c1", "c2"}

\* a counts mapping the other circuit of a result holds
Decoy == [k \in {<<0, 0>>, <<1, 1>>} |-> 512]

\* a result of self.backend for two circuits: circ has data d
ResultFor(circ, d) ==
    [c \in Circuits |->
        IF c = circ THEN d
        ELSE Data(TRUE, Decoy, d.has_statevector)]

\* a caller runs formulate_result(result_exp, circ, ofh); ofh may be None
FormulateResult ==
    /\ pc = "ready"
    /\ \E circ \in Circuits, d \in DataOf(self.backend, CountsMaps),
          ofh \in {"stdout", "outfile", None} :
          LET result_exp == ResultFor(circ, d)
              f == formulate_result(M, result_exp, circ, ofh)
          IN  /\ Set(f.m)
              /\ ret' = f.output
              /\ args' = [result_exp |-> result_exp, circ |-> circ, ofh |-> ofh]
    /\ pc' = "done"
    /\ last' = "formulate_result"
    /\ UNCHANGED <<backends, idx, EXITVAL>>

\* a caller runs process_result(result_exp, circ, ofh) on an open handle
ProcessResult ==
    /\ pc = "ready"
    /\ \E circ \in Circuits, d \in DataOf(self.backend, CountsMaps),
          ofh \in {"stdout", "outfile"} :
          LET result_exp == ResultFor(circ, d)
          IN  /\ Set(process_result(M, result_exp, circ, ofh))
              /\ args' = [result_exp |-> result_exp, circ |-> circ, ofh |-> ofh]
    /\ ret' = NoneOutput
    /\ pc' = "done"
    /\ last' = "process_result"
    /\ UNCHANGED <<backends, idx, EXITVAL>>

NextReport == FormulateResult \/ ProcessResult

SpecReport == InitReport /\ [][NextReport]_vars

-----------------------------------------------------------------------------
(* Backend selection called on a fresh instance *)

ProviderNames == {"IBMQ", "qi", "Forest", "JKU"}

BackendNames == {None, "dev7", "nosuch"}

QubitCounts == {5, 7, 33}

\* the configurations that decide the rule choose_backend applies
RuleConfigs ==
    {[Defaults EXCEPT !.provider_name = p, !.backend_name = b, !.use_aer = a,
                      !.qvm = q, !.qvm_as = qa, !.use_sim = sim, !.num_qubits = n] :
        p \in ProviderNames, b \in BackendNames, a \in BOOLEAN, q \in BOOLEAN,
        qa \in BOOLEAN, sim \in BOOLEAN, n \in QubitCounts}

\* the configurations that decide the kind of local simulator and its method
KindConfigs ==
    {[Defaults EXCEPT !.use_aer = a, !.use_qasm_simulator = qs,
                      !.use_unitary_simulator = us, !.use_statevector_gpu = g1,
                      !.use_unitary_gpu = g2, !.use_density_matrix_gpu = g3] :
        a \in BOOLEAN, qs \in BOOLEAN, us \in BOOLEAN, g1 \in BOOLEAN,
        g2 \in BOOLEAN, g3 \in BOOLEAN}

InitSelect ==
    \/ /\ backends \in Listings
       /\ \E kw \in RuleConfigs : Start(Fresh(kw))
    \/ /\ backends = <<Sim32, Dev5, Dev7>>
       /\ \E kw \in KindConfigs : Start(Fresh(kw))

\* whether the provider account has stored credentials
Accounts == {"stored", "missing"}

\* a caller runs choose_backend()
ChooseBackend ==
    /\ pc = "ready"
    /\ \E acct \in Accounts : Set(choose_backend(M, acct))
    /\ pc' = "done"
    /\ last' = "choose_backend"
    /\ UNCHANGED <<backends, ret, args, idx, EXITVAL>>

\* a caller runs account_fu()
AccountFu ==
    /\ pc = "ready"
    /\ \E acct \in Accounts : Set(account_fu(M, acct))
    /\ pc' = "done"
    /\ last' = "account_fu"
    /\ UNCHANGED <<backends, ret, args, idx, EXITVAL>>

NextSelect ==
    \/ ChooseBackend
    \/ AccountFu

SpecSelect == InitSelect /\ [][NextSelect]_vars


-----------------------------------------------------------------------------
(* Jobs: execute, the wait for the result, the job dictionary *)

\* what a submission meets: how its source loads, how the job ends, the
\* result the backend holds for it, and the accessor the job does not
\* support on this platform, if any
Env(src, outcome, result, unsupported) ==
    [src |-> src, outcome |-> outcome, result |-> result, unsupported |-> unsupported]

\* the accessors of an IBMQJob that ibmqjob_to_dict reads, in its order
Accessors ==
    <<"backend", "cancelled", "creation_date", "done", "error_message",
      "in_final_state", "job_id", "name", "properties", "qobj", "queue_info",
      "queue_position", "result", "running", "scheduling_mode", "share_level",
      "status", "tags", "time_per_step">>

\* the accessor a job may lack; it matters where ibmqjob_to_dict is called
Unsupported(slf) ==
    IF slf.provider_name = "IBMQ"
       /\ (slf.print_job \/ slf.jobs_status # 0 \/ Truthy(slf.job_id))
    THEN {None, "properties", "time_per_step"}
    ELSE {None}

\* only jobs of the IBMQ provider report failure by IBMQJobFailureError
CanFail(slf) == slf.backend.family = "Provider" /\ slf.provider_name = "IBMQ"

\* nothing was raised so far: the next statement runs
Ok(m) == m.raised = NoExc

\* what execute(circ, backend=None) raises is Qiskit's choice
NoBackendErrors == {"AttributeError", "QiskitError"}

\* execute submitting the circuits one by one, a job for each
execute_each(m, circs, method, env) ==
    IF ~Ok(m) \/ m.self.backend = NoBackend THEN m
    ELSE [m EXCEPT
            !.calls = @ \o [i \in 1..Len(circs) |-> "execute"],
            !.jobs = @ \o [i \in 1..Len(circs) |->
                            [circs |-> <<circs[i]>>, backend |-> m.self.backend,
                             method |-> method, shots |-> m.self.shots,
                             status |-> env.outcome, result |-> env.result,
                             error_message |-> "backend said no",
                             unsupported |-> env.unsupported]]]

\* qiskit.execute(circs, backend=self.backend, ...): a new job; method is the
\* backend option passed, None when none is. Without a backend execute
\* raises, and env.outcome is what it raises
execute(m, circs, method, env) ==
    IF ~Ok(m) THEN m
    ELSE IF m.self.backend = NoBackend
    THEN Raise(Call(m, "execute"), Foreign(env.outcome, <<"backend">>))
    ELSE [Call(m, "execute") EXCEPT !.jobs =
            Append(@, [circs |-> circs, backend |-> m.self.backend,
                       method |-> method, shots |-> m.self.shots,
                       status |-> env.outcome, result |-> env.result,
                       error_message |-> "backend said no",
                       unsupported |-> env.unsupported])]

\* the job created last
job_exp(m) == m.jobs[Len(m.jobs)]

\* job.result(): blocks until the job is final; a failed job raises
result(m, job) ==
    IF ~Ok(m) THEN m
    ELSE IF job.status = "ERROR"
    THEN Raise(Call(m, "job.result"), Foreign("IBMQJobFailureError", <<"job failed">>))
    ELSE Call(m, "job.result")

\* my_dict[a] = job.a(): an accessor the job lacks raises, and result()
\* waits for the job and raises when it failed
accessor(m, job, a) ==
    IF a = job.unsupported THEN Raise(m, Foreign("AttributeError", <<a>>))
    ELSE IF a = "result" THEN result(m, job)
    ELSE m

\* the assignments of ibmqjob_to_dict from the i-th on
RECURSIVE accessors(_, _, _)
accessors(m, job, i) ==
    IF i > Len(Accessors) \/ ~Ok(m) THEN m
    ELSE accessors(accessor(m, job, Accessors[i]), job, i + 1)

\* QisJob.ibmqjob_to_dict(job): every accessor in turn, and the dictionary
\* of all of them is returned if none raised
ibmqjob_to_dict(m, job) ==
    IF ~Ok(m) THEN m ELSE accessors(Call(m, "ibmqjob_to_dict"), job, 1)

\* the dictionary of a job: by ibmqjob_to_dict for IBMQ, by to_dict() for
\* the other providers, and the job itself for QI
job_to_dict(m, job) ==
    IF ~Ok(m) THEN m
    ELSE IF m.self.provider_name # "QI" /\ m.self.provider_name = "IBMQ"
    THEN ibmqjob_to_dict(m, job)
    ELSE IF m.self.provider_name # "QI" THEN Call(m, "job.to_dict")
    ELSE m

\* print(label); self._pp.pprint(a_job)
pprint_job(m, label) ==
    IF ~Ok(m) THEN m
    ELSE pprint(pprint(Call(m, label), <<label>>), <<"job", ToString(Len(m.jobs))>>)

\* the if self.print_job blocks: the job's dict under its label
print_job(m, label) ==
    IF ~Ok(m) \/ ~m.self.print_job THEN m
    ELSE pprint_job(job_to_dict(m, job_exp(m)), label)

\* the if self.use_job_monitor block
monitor(m) ==
    IF ~Ok(m) \/ ~m.self.use_job_monitor THEN m
    ELSE IF Truthy(m.self.job_monitor_filepath)
    THEN Call(m, "job_monitor(file)")
    ELSE Call(m, "job_monitor")

\* self.result_exp_dict = result_exp.to_dict()
to_dict(m) ==
    IF ~Ok(m) THEN m
    ELSE [m EXCEPT !.self.result_exp_dict = <<job_exp(m).result>>]

\* from the Before run dictionary to the After run dictionary: the monitor,
\* the wait for the result, self.result_exp_dict
await(m) ==
    IF ~Ok(m) THEN m
    ELSE print_job(to_dict(result(monitor(print_job(m, "Before run:")), job_exp(m))),
                   "After run:")

\* if self.show_result: self._pp.pprint(...)
show_result(m) ==
    IF Ok(m) /\ m.self.show_result THEN pprint(m, <<"result">>) ELSE m

\* job_failure leaving the job's error message out
job_failure_without_message(m) ==
    IF m.raised.type = "IBMQJobFailureError"
    THEN Raise(m, QisJobRuntimeException(<<"Job failure">> \o m.raised.message))
    ELSE m

\* except IBMQJobFailureError as err: raise QisJobRuntimeException(...)
job_failure(m) ==
    IF m.raised.type = "IBMQJobFailureError"
    THEN Raise(m, QisJobRuntimeException(
            <<"Job failure">> \o m.raised.message \o <<job_exp(m).error_message>>))
    ELSE m

-----------------------------------------------------------------------------
(* The submission paths *)

\* the circuit made from the source read: exec of a snippet defining
\* qc_name, nuqasm2's translator, or QuantumCircuit.from_qasm_str;
\* where names the source in the translator's error message
load_circuit(m, src, where, snippet) ==
    IF ~Ok(m) \/ src = "ok" THEN m
    ELSE IF snippet /\ Truthy(m.self.qc_name)
    THEN Raise(m, Foreign("KeyError", <<m.self.qc_name>>))
    ELSE IF Truthy(m.self.nuqasm2)
    THEN Raise(m, QisJobRuntimeException(<<where, "Qasm_Exception", "errpacket">>))
    ELSE Raise(m, Foreign("QasmError", <<"parse">>))

\* plot_circuit_layout and save_fig, if self.circuit_layout
plot_circuit(m) ==
    IF m.self.circuit_layout
    THEN save_fig(m, m.self.figure_basename, m.self.backend, "plot_circuit.png")
    ELSE m

\* self._pp.pprint(schedule(...)), if self.showsched
showsched(m, circ) ==
    IF m.self.showsched THEN pprint(m, <<"schedule", circ>>) ELSE m

\* the if self.xpile block
xpile(m, circ) ==
    IF ~Ok(m) \/ ~m.self.xpile THEN m
    ELSE showsched(plot_circuit(pprint(Call(m, "transpile"), <<"transpiled", circ>>)),
                   circ)

\* ifh = sys.stdin, or open(filepath_name, 'r')
open_ifh(m, filepath_name, src) ==
    IF ~Ok(m) \/ filepath_name = None THEN m
    ELSE IF src = "missing" THEN Raise(m, Foreign("FileNotFoundError", <<filepath_name>>))
    ELSE [m EXCEPT !.handles = @ \cup {"ifh"}]

\* ofh = sys.stdout, or open(self.outfile_path, 'w'), which empties the file
open_ofh(m) ==
    IF ~Ok(m) \/ m.self.outfile_path = None THEN m
    ELSE [m EXCEPT !.handles = @ \cup {"ofh"}, !.outfile = <<>>]

\* the handle the records are written to
Ofh(m) == IF m.self.outfile_path = None THEN "stdout" ELSE "outfile"

\* if self.backend is None: raise QisJobRuntimeException(message)
need_backend(m, message) ==
    IF Ok(m) /\ m.self.backend = NoBackend
    THEN Raise(m, QisJobRuntimeException(<<message>>))
    ELSE m

\* if ifh is not sys.stdin: ifh.close(), after the source was read
close_ifh(m) == IF Ok(m) THEN [m EXCEPT !.handles = @ \ {"ifh"}] ELSE m

\* if ofh is not sys.stdout: ofh.close(), reached when nothing was raised
close_ofh(m) ==
    IF Ok(m) /\ Ofh(m) # "stdout" THEN [m EXCEPT !.handles = @ \ {"ofh"}] ELSE m

\* the method option one_exp and qasm_exp pass to execute
method_option(slf) == IF Truthy(slf.method) THEN slf.method ELSE None

\* the method option multi_exps passes to execute
multi_method_option(slf) == IF slf.use_statevector_gpu THEN "statevector_gpu" ELSE None

\* the circuit read from a file is known by the file's path
CircOf(filepath_name) == IF filepath_name = None THEN "stdin" ELSE filepath_name

\* process taking the data of the job's first circuit for every circuit
process_first(m, circ) ==
    IF ~Ok(m) THEN m
    ELSE process_result(m, [c \in DOMAIN job_exp(m).result |->
                               job_exp(m).result[job_exp(m).circs[1]]],
                        circ, Ofh(m))

\* self.process_result(result_exp, circ, ofh) on the result of the job
process(m, circ) ==
    IF ~Ok(m) THEN m ELSE process_result(m, job_exp(m).result, circ, Ofh(m))

\* one_exp up to its try statement
one_circuit(m, filepath_name, src) ==
    xpile(load_circuit(close_ifh(need_backend(open_ofh(open_ifh(m, filepath_name, src)),
                                              "No backend available, quitting.")),
                       src, CircOf(filepath_name), TRUE),
          CircOf(filepath_name))

\* QisJob.one_exp(filepath_name)
one_exp(m, filepath_name, env) ==
    close_ofh(job_failure(process(show_result(await(
        execute(one_circuit(m, filepath_name, env.src), <<CircOf(filepath_name)>>,
                method_option(m.self), env))), CircOf(filepath_name))))

\* the for loop of multi_exps over self.filepaths: every file is opened,
\* read, closed and made a circuit; srcs says how each file loads
RECURSIVE load_all(_, _, _)
load_all(m, i, srcs) ==
    IF i > Len(m.self.filepaths) \/ ~Ok(m) THEN m
    ELSE load_all(xpile(load_circuit(close_ifh(open_ifh(m, m.self.filepaths[i], srcs[i])),
                                     srcs[i], m.self.filepaths[i], TRUE),
                        m.self.filepaths[i]),
                  i + 1, srcs)

\* for circ in circs: self.process_result(result_exp, circ, ofh)
RECURSIVE process_all(_, _, _)
process_all(m, circs, i) ==
    IF i > Len(circs) \/ ~Ok(m) THEN m
    ELSE process_all(process(m, circs[i]), circs, i + 1)

\* QisJob.multi_exps(); env.src is the sequence of srcs of the files
multi_exps(m, env) ==
    close_ofh(job_failure(process_all(show_result(await(
        execute(load_all(open_ofh(need_backend(m, "No backend {}")), 1, env.src),
                m.self.filepaths, multi_method_option(m.self), env))),
        m.self.filepaths, 1)))

\* the_source = self.qasm_src; "source:\n" + the_source fails on None
the_source(m) ==
    IF Truthy(m.self.qasm_src) THEN m ELSE Raise(m, Foreign("TypeError", <<"str">>))

\* qasm_exp up to its return statement
qasm_job(m, env) ==
    show_result(await(
        execute(xpile(load_circuit(the_source(m), env.src, m.self.qasm_src, FALSE),
                      "qasm_src"),
                <<"qasm_src">>, method_option(m.self), env)))

\* return self.formulate_result(result_exp, circ, None)
qasm_return(m) ==
    IF ~Ok(m) THEN [m |-> job_failure(m), output |-> NoneOutput]
    ELSE formulate_result(m, job_exp(m).result, "qasm_src", None)

\* QisJob.qasm_exp(): the machine afterwards and the returned output
qasm_exp(m, env) == qasm_return(qasm_job(m, env))

-----------------------------------------------------------------------------
(* do_it *)

\* a job the backend holds from an earlier run, as retrieve_job or jobs()
\* hands it out
RetrievedJob(m, env) ==
    [circs |-> <<"earlier">>, backend |-> m.self.backend, method |-> None,
     shots |-> m.self.shots, status |-> env.outcome, result |-> env.result,
     error_message |-> "backend said no", unsupported |-> env.unsupported]

\* unpaired looking for a token without url only
unpaired_token(slf) ==
    slf.provider_name = "IBMQ" /\ Truthy(slf.token) /\ ~Truthy(slf.url)

\* the condition of the check on token and url
unpaired(slf) ==
    slf.provider_name = "IBMQ"
    /\ \/ Truthy(slf.token) /\ ~Truthy(slf.url)
       \/ Truthy(slf.url) /\ ~Truthy(slf.token)

\* account_fu, then self.backend = self.provider.get_backend(self.backend_name)
connect_named(m, acct) ==
    LET m1 == account_fu(m, acct)
    IN  IF m1.raised # NoExc THEN m1 ELSE get_named_backend(m1)

\* the show_configuration and the show_properties branch
show_backend(m, acct, what) ==
    LET m1 == connect_named(m, acct)
    IN  IF m1.raised # NoExc THEN m1
        ELSE pprint(Call(m1, what), <<what, BackendStr(m1.self.backend)>>)

\* the show_backends branch
show_backends(m, acct) ==
    LET m1 == account_fu(m, acct)
        m2 == IF m1.raised # NoExc THEN m1 ELSE provider_backends(m1)
    IN  IF m2.raised # NoExc THEN m2
        ELSE pprint(m2, [i \in 1..Len(backends) |-> BackendStr(backends[i])])

RECURSIVE pprint_all(_, _)
pprint_all(m, lines) ==
    IF lines = <<>> THEN m ELSE pprint_all(pprint(m, Head(lines)), Tail(lines))

\* the show_statuses branch: get_statuses is about the named backend, or
\* about every backend of the provider
show_statuses(m, acct) ==
    LET m1 == account_fu(m, acct)
        m2 == IF m1.raised = NoExc /\ Truthy(m1.self.backend_name)
              THEN get_named_backend(m1) ELSE m1
        m3 == IF m2.raised # NoExc THEN m2
              ELSE IF m2.self.backend # NoBackend THEN Call(m2, "backend.status")
              ELSE provider_backends(m2)
    IN  IF m3.raised # NoExc THEN m3
        ELSE IF m3.self.backend # NoBackend
        THEN pprint(m3, <<"status", BackendStr(m3.self.backend)>>)
        ELSE pprint_all(m3, [i \in 1..Len(backends) |->
                                <<"status", BackendStr(backends[i])>>])

\* need_backend_name with the check left out
need_backend_name_unchecked(m) == m

\* if not self.backend_name: raise QisJobArgumentException
need_backend_name(m) ==
    IF ~Truthy(m.self.backend_name)
    THEN Raise(m, QisJobArgumentException(
            <<"kwargs jobs or job_id or job_result also require kwarg backend">>))
    ELSE m

\* the jobs_status, job_id and job_result branch
show_jobs(m, acct, env) ==
    LET m1 == IF need_backend_name(m).raised # NoExc THEN need_backend_name(m)
              ELSE connect_named(m, acct)
        job == RetrievedJob(m1, env)
    IN  IF m1.raised # NoExc THEN m1
        ELSE IF m1.self.jobs_status # 0
        THEN LET m2 == IF m1.self.provider_name = "QI"
                       THEN Call(m1, "QuantumInspireAPI.get_jobs")
                       ELSE Call(m1, "backend.jobs")
                 m3 == job_to_dict(m2, job)
             IN  IF m3.raised # NoExc THEN m3 ELSE pprint(m3, <<"job", "earlier">>)
        ELSE IF Truthy(m1.self.job_id)
        THEN job_to_dict(Call(m1, "backend.retrieve_job"), job)
        ELSE LET m2 == pprint(Call(m1, "backend.retrieve_job"),
                              <<"Job", m1.self.job_result, job.status>>)
                 m3 == result(m2, job)
             IN  IF m3.raised # NoExc THEN m3 ELSE pprint(m3, <<"result">>)

\* do_it looking at the job flags before the show flags
do_it_jobs_first(m, acct, env) ==
    LET slf == m.self
        return(m1) == [m |-> m1, experiments |-> FALSE]
    IN  IF slf.show_qisjob_version THEN return(pprint(m, <<"my_version">>))
        ELSE IF slf.show_q_version THEN return(pprint(m, <<"__qiskit_version__">>))
        ELSE IF unpaired(slf)
        THEN return(Raise(m, QisJobArgumentException(
                <<"kwargs token and url must be used together for IBMQ provider or not at all">>)))
        ELSE IF slf.jobs_status # 0 \/ Truthy(slf.job_id) \/ Truthy(slf.job_result)
        THEN return(show_jobs(m, acct, env))
        ELSE IF slf.show_configuration
        THEN return(show_backend(m, acct, "backend.configuration"))
        ELSE IF slf.show_properties
        THEN return(show_backend(m, acct, "backend.properties"))
        ELSE IF slf.show_backends THEN return(show_backends(m, acct))
        ELSE IF slf.show_statuses THEN return(show_statuses(m, acct))
        ELSE LET m1 == choose_backend(m, acct)
             IN  [m |-> m1, experiments |-> m1.raised = NoExc]

\* QisJob.do_it up to its last else: the machine afterwards, and whether the
\* experiments are to follow
do_it(m, acct, env) ==
    LET slf == m.self
        return(m1) == [m |-> m1, experiments |-> FALSE]
    IN  IF slf.show_qisjob_version THEN return(pprint(m, <<"my_version">>))
        ELSE IF slf.show_q_version THEN return(pprint(m, <<"__qiskit_version__">>))
        ELSE IF unpaired(slf)
        THEN return(Raise(m, QisJobArgumentException(
                <<"kwargs token and url must be used together for IBMQ provider or not at all">>)))
        ELSE IF slf.show_configuration
        THEN return(show_backend(m, acct, "backend.configuration"))
        ELSE IF slf.show_properties
        THEN return(show_backend(m, acct, "backend.properties"))
        ELSE IF slf.show_backends THEN return(show_backends(m, acct))
        ELSE IF slf.show_statuses THEN return(show_statuses(m, acct))
        ELSE IF slf.jobs_status # 0 \/ Truthy(slf.job_id) \/ Truthy(slf.job_result)
        THEN return(show_jobs(m, acct, env))
        ELSE LET m1 == choose_backend(m, acct)
             IN  [m |-> m1, experiments |-> m1.raised = NoExc]


-----------------------------------------------------------------------------
(* The qisjob driver and the callers of the class *)

Count(flags) == Cardinality({i \in 1..Len(flags) : flags[i]})

\* PARSER.parse_args(): the options of GROUP, of GROUPB and of GROUPC exclude
\* each other, and argparse ends the program for two of one group
parse_args_error(slf) ==
    \/ Count(<<slf.use_sim, slf.use_aer, Truthy(slf.backend_name)>>) > 1
    \/ Count(<<slf.use_qasm_simulator, slf.use_unitary_simulator>>) > 1
    \/ Count(<<slf.use_statevector_gpu, slf.use_unitary_gpu,
               slf.use_density_matrix_gpu>>) > 1

\* the exit status of parser.error()
ArgparseExit == 2

\* the exit status of the interpreter for an exception nothing catches
UncaughtExit == 1

\* exit_value taking 1 for every QisJobException
exit_value_flat(e) ==
    IF e = NoExc THEN 0
    ELSE IF IsQisJobException(e) THEN 1
    ELSE IF IsQiskitError(e) THEN 200
    ELSE UncaughtExit

\* EXITVAL after the try statement around QJ.do_it()
exit_value(e) ==
    IF e = NoExc THEN 0
    ELSE IF IsQisJobException(e) THEN e.retval
    ELSE IF IsQiskitError(e) THEN 200
    ELSE UncaughtExit

\* the position after a call that returned or raised
Ended(m) == IF m.raised # NoExc THEN "raised" ELSE "returned"

\* filepaths: f1 .. fn
Files(n) == [i \in 1..n |-> "f" \o ToString(i)]

FilePaths == {Files(n) : n \in 0..MaxFiles}

\* what the counts of a circuit run in the flow can be
FlowCounts ==
    {[k \in {<<0, 0>>, <<1, 1>>} |-> IF k = <<0, 0>> THEN 7 ELSE 1024],
     [k \in {<<0, 1>>} |-> 1024]}

\* how a job can end
Outcomes(fails) == IF fails THEN {"DONE", "ERROR"} ELSE {"DONE"}

\* how a submission on self.backend can end
JobOutcomes(slf) ==
    IF slf.backend = NoBackend THEN NoBackendErrors ELSE Outcomes(CanFail(slf))

\* the results self.backend can hold for the circuits of one job
ResultsFor(slf, circs) ==
    [{circs[i] : i \in 1..Len(circs)} -> DataOf(slf.backend, FlowCounts)]

\* the environment of one experiment on one source
OneEnvs(slf, circ, srcs) ==
    {Env(src, o, r, u) : src \in srcs, o \in JobOutcomes(slf),
                         r \in ResultsFor(slf, <<circ>>), u \in Unsupported(slf)}

\* how the files of a batch load: all of them, or all but one
BatchSrcs(n) ==
    {[i \in 1..n |-> "ok"]}
        \cup {[i \in 1..n |-> IF i = k THEN s ELSE "ok"] :
                k \in 1..n, s \in {"bad", "missing"}}

\* the environment of one batch
BatchEnvs(slf) ==
    {Env(srcs, o, r, u) : srcs \in BatchSrcs(Len(slf.filepaths)),
                          o \in JobOutcomes(slf),
                          r \in ResultsFor(slf, slf.filepaths),
                          u \in Unsupported(slf)}

\* the environment of the branches of do_it that retrieve earlier jobs
EarlierEnvs(slf) ==
    {Env("ok", o, [c \in {"earlier"} |-> Data(FALSE, NoCounts, FALSE)], u) :
        u \in Unsupported(slf),
        o \in Outcomes(slf.provider_name = "IBMQ")}


-----------------------------------------------------------------------------
(* The runs of do_it that are explored *)

\* runs that differ in where their records go
OutputConfigs ==
    {[Defaults EXCEPT !.use_aer = b[1], !.use_qasm_simulator = b[1],
                      !.backend_name = b[2], !.filepaths = fp, !.one_job = oj,
                      !.qasm = q, !.outfile_path = out, !.qasm_src = src] :
        b \in {<<TRUE, None>>, <<FALSE, "dev7">>}, fp \in FilePaths,
        oj \in BOOLEAN, q \in BOOLEAN, out \in {None, "out.csv"},
        src \in {None, "OPENQASM 2.0;"}}

\* runs that differ in the local simulator asked for
LocalConfigs ==
    {[Defaults EXCEPT !.filepaths = Files(1), !.use_aer = TRUE,
                      !.use_qasm_simulator = qs, !.use_unitary_simulator = us,
                      !.use_statevector_gpu = g1, !.use_unitary_gpu = g2,
                      !.use_density_matrix_gpu = g3, !.one_job = oj] :
        qs \in BOOLEAN, us \in BOOLEAN, g1 \in BOOLEAN, g2 \in BOOLEAN,
        g3 \in BOOLEAN, oj \in BOOLEAN}

\* runs that differ in the remote backend asked for
RemoteConfigs ==
    {[Defaults EXCEPT !.filepaths = Files(1), !.provider_name = p,
                      !.backend_name = b, !.use_sim = sim, !.num_qubits = n,
                      !.one_job = oj, !.qasm_src = src] :
        p \in {"IBMQ", "QI", "Forest"}, b \in BackendNames, sim \in BOOLEAN,
        n \in {5, 33}, oj \in BOOLEAN, src \in {None, "OPENQASM 2.0;"}}

\* runs that differ in what is shown of the job and of its result
OptionConfigs ==
    {[Defaults EXCEPT !.filepaths = Files(1), !.backend_name = "dev7",
                      !.print_job = pj, !.use_job_monitor = jm,
                      !.show_result = sr, !.xpile = xp, !.circuit_layout = xp,
                      !.nuqasm2 = nq, !.qc_name = qc, !.print_state_city = sc,
                      !.one_job = oj] :
        pj \in BOOLEAN, jm \in BOOLEAN, sr \in BOOLEAN, xp \in BOOLEAN,
        nq \in {None, "include"}, qc \in {None, "qc"}, sc \in {0, 3},
        oj \in BOOLEAN}

\* the requests do_it answers without running an experiment
Requests ==
    {"none", "show_configuration", "show_properties", "show_backends",
     "show_statuses", "jobs_status", "job_id", "job_result"}

WithRequest(kw, r) ==
    CASE r = "show_configuration" -> [kw EXCEPT !.show_configuration = TRUE]
      [] r = "show_properties" -> [kw EXCEPT !.show_properties = TRUE]
      [] r = "show_backends" -> [kw EXCEPT !.show_backends = TRUE]
      [] r = "show_statuses" -> [kw EXCEPT !.show_statuses = TRUE]
      [] r = "jobs_status" -> [kw EXCEPT !.jobs_status = 1]
      [] r = "job_id" -> [kw EXCEPT !.job_id = "id1"]
      [] r = "job_result" -> [kw EXCEPT !.job_result = "id1"]
      [] OTHER -> kw

\* runs that differ in the request, the credentials and the version flags
RequestConfigs ==
    {WithRequest([Defaults EXCEPT !.provider_name = p, !.token = t, !.url = u,
                                  !.backend_name = b,
                                  !.show_qisjob_version = v,
                                  !.show_q_version = qv], r) :
        p \in {"IBMQ", "QI"}, t \in {None, "token"}, u \in {None, "url"},
        b \in BackendNames, v \in BOOLEAN, qv \in BOOLEAN, r \in Requests}

\* runs with a job request and one of the show requests together
PairConfigs ==
    {WithRequest(WithRequest([Defaults EXCEPT !.backend_name = b], j), r) :
        b \in {None, "dev7"},
        j \in {"jobs_status", "job_id", "job_result"},
        r \in {"show_configuration", "show_properties", "show_backends",
               "show_statuses"}}

\* runs on the local simulator that are given credentials all the same
LocalCredentialConfigs ==
    {[Defaults EXCEPT !.filepaths = Files(1), !.use_aer = TRUE,
                      !.provider_name = p, !.token = t, !.url = u] :
        p \in {"IBMQ", "QI"}, t \in {None, "token"}, u \in {None, "url"}}

FlowConfigs ==
    OutputConfigs \cup LocalConfigs \cup RemoteConfigs \cup OptionConfigs
        \cup RequestConfigs \cup PairConfigs \cup LocalCredentialConfigs

\* a QisJob some caller constructed, or the arguments the driver is about to
\* parse and to construct its QisJob from; the driver passes no qasm_src
Init ==
    /\ backends = <<Sim32, Dev5, Dev7>>
    /\ \E kw \in FlowConfigs :
          /\ self = Fresh(kw).self
          /\ stdout = <<>> /\ outfile = <<>> /\ sink = <<>>
          /\ handles = {} /\ calls = <<>> /\ raised = NoExc
          /\ figures = <<>> /\ clock = 0 /\ jobs = <<>>
          /\ ret = NoneOutput /\ last = None /\ args = NoArgs /\ idx = 0
          /\ EXITVAL = -1
          /\ \/ pc = "ready"
             \/ pc = "main" /\ kw.qasm_src = None

\* the driver up to its try statement: parse_args, QisJob(...), EXITVAL = 0
ParseArgs ==
    /\ pc = "main"
    /\ IF parse_args_error(self)
       THEN pc' = "exited" /\ EXITVAL' = ArgparseExit
       ELSE pc' = "ready" /\ EXITVAL' = 0
    /\ last' = "parse_args"
    /\ UNCHANGED <<self, backends, stdout, outfile, sink, handles, calls, raised,
                   ret, figures, clock, jobs, args, idx>>

\* the call has ended with machine m
Returns(m) == Set(m) /\ pc' = Ended(m)

\* do_it has ended, or goes on to its experiments
Proceeds(d) == Set(d.m) /\ pc' = IF d.experiments THEN "experiments" ELSE Ended(d.m)

\* do_it is called: its requests, or the choice of the backend
DoIt ==
    /\ pc = "ready"
    /\ \E acct \in Accounts, env \in EarlierEnvs(self) : Proceeds(do_it(M, acct, env))
    /\ last' = "do_it"
    /\ UNCHANGED <<backends, ret, args, idx, EXITVAL>>

\* the assignment of what qasm_exp returned, unless it raised
Assigns(q) ==
    /\ Set(IF Ok(q.m) THEN [q.m EXCEPT !.self.qasm_result = q.output] ELSE q.m)
    /\ ret' = q.output
    /\ pc' = Ended(q.m)

\* self.qasm_result = self.qasm_exp()
QasmExp ==
    /\ pc = "experiments"
    /\ Truthy(self.qasm_src)
    /\ \E env \in OneEnvs(self, "qasm_src", {"ok", "bad"}) : Assigns(qasm_exp(M, env))
    /\ last' = "qasm_exp"
    /\ UNCHANGED <<backends, args, idx, EXITVAL>>

\* self.one_exp(): the source is read from stdin
OneExpStdin ==
    /\ pc = "experiments"
    /\ ~Truthy(self.qasm_src) /\ self.filepaths = <<>>
    /\ \E env \in OneEnvs(self, "stdin", {"ok", "bad"}) : Returns(one_exp(M, None, env))
    /\ last' = "one_exp"
    /\ UNCHANGED <<backends, ret, args, idx, EXITVAL>>

\* self.multi_exps()
MultiExps ==
    /\ pc = "experiments"
    /\ ~Truthy(self.qasm_src) /\ self.filepaths # <<>> /\ self.one_job
    /\ \E env \in BatchEnvs(self) : Returns(multi_exps(M, env))
    /\ last' = "multi_exps"
    /\ UNCHANGED <<backends, ret, args, idx, EXITVAL>>

\* Turns going on to the next file whatever the turn raised
Turns_on(m) ==
    /\ Set(m)
    /\ pc' = IF idx + 1 < Len(self.filepaths) THEN "experiments" ELSE Ended(m)

\* the loop goes on after a turn that raised nothing, while files are left
Turns(m) ==
    /\ Set(m)
    /\ pc' = IF Ok(m) /\ idx + 1 < Len(self.filepaths) THEN "experiments" ELSE Ended(m)

\* one turn of for f_path in self.filepaths: self.one_exp(f_path)
OneExp ==
    /\ pc = "experiments"
    /\ ~Truthy(self.qasm_src) /\ self.filepaths # <<>> /\ ~self.one_job
    /\ idx < Len(self.filepaths)
    /\ \E env \in OneEnvs(self, self.filepaths[idx + 1], {"ok", "bad", "missing"}) :
          Turns(one_exp(M, self.filepaths[idx + 1], env))
    /\ idx' = idx + 1
    /\ last' = "one_exp"
    /\ UNCHANGED <<backends, ret, args, EXITVAL>>

\* the driver after do_it: the except clauses and sys.exit(EXITVAL)
Exit ==
    /\ pc \in {"returned", "raised"}
    /\ EXITVAL = 0
    /\ EXITVAL' = exit_value(raised)
    /\ pc' = "exited"
    /\ last' = "exit"
    /\ UNCHANGED <<self, backends, stdout, outfile, sink, handles, calls, raised,
                   ret, figures, clock, jobs, args, idx>>

Next ==
    \/ ParseArgs
    \/ DoIt
    \/ QasmExp
    \/ OneExpStdin
    \/ MultiExps
    \/ OneExp
    \/ Exit

Spec == Init /\ [][Next]_vars


-----------------------------------------------------------------------------
(* The submission paths called by a caller of the class *)

\* the instances a caller submits from
SubmitConfigs ==
    {[Defaults EXCEPT !.filepaths = fp, !.qasm_src = src, !.outfile_path = out,
                      !.use_aer = a, !.use_qasm_simulator = a, !.qasm = q,
                      !.print_job = pj] :
        fp \in FilePaths, src \in {None, "OPENQASM 2.0;"},
        out \in {None, "out.csv"}, a \in BOOLEAN, q \in BOOLEAN, pj \in BOOLEAN}

InitSubmit ==
    /\ backends = <<Sim32, Dev5, Dev7>>
    /\ \E kw \in SubmitConfigs : Start(Fresh(kw))

\* the caller binds a backend first: choose_backend()
BindBackend ==
    /\ pc = "ready"
    /\ \E acct \in Accounts : Set(choose_backend(M, acct))
    /\ pc' = IF raised' = NoExc THEN "bound" ELSE "raised"
    /\ last' = "choose_backend"
    /\ UNCHANGED <<backends, ret, args, idx, EXITVAL>>

\* the caller runs one_exp(filepath_name), or one_exp() for stdin
CallOneExp ==
    /\ pc \in {"ready", "bound"}
    /\ \E f \in {None} \cup {self.filepaths[i] : i \in 1..Len(self.filepaths)} :
          \E env \in OneEnvs(self, CircOf(f), {"ok", "bad", "missing"}) :
              (f = None => env.src # "missing") /\ Returns(one_exp(M, f, env))
    /\ last' = "one_exp"
    /\ UNCHANGED <<backends, ret, args, idx, EXITVAL>>

\* the caller runs multi_exps() on the files it gave
CallMultiExps ==
    /\ pc \in {"ready", "bound"}
    /\ self.filepaths # <<>>
    /\ \E env \in BatchEnvs(self) : Returns(multi_exps(M, env))
    /\ last' = "multi_exps"
    /\ UNCHANGED <<backends, ret, args, idx, EXITVAL>>

\* the caller runs qasm_exp()
CallQasmExp ==
    /\ pc \in {"ready", "bound"}
    /\ \E env \in OneEnvs(self, "qasm_src", {"ok", "bad"}) : Assigns(qasm_exp(M, env))
    /\ last' = "qasm_exp"
    /\ UNCHANGED <<backends, args, idx, EXITVAL>>

NextSubmit ==
    \/ BindBackend
    \/ CallOneExp
    \/ CallMultiExps
    \/ CallQasmExp

SpecSubmit == InitSubmit /\ [][NextSubmit]_vars


-----------------------------------------------------------------------------
(* Backend selection on an instance that is used again *)

\* the caller edits the members that select the local simulator, its kind
\* and its method, and the name of the remote backend, between two calls
EditMembers ==
    /\ pc = "done"
    /\ idx < MaxChoices
    /\ \E a \in BOOLEAN, qs \in BOOLEAN, us \in BOOLEAN, g1 \in BOOLEAN,
          g2 \in BOOLEAN, g3 \in BOOLEAN, b \in BackendNames :
          self' = [self EXCEPT !.use_aer = a, !.backend_name = b,
                               !.use_qasm_simulator = qs,
                               !.use_unitary_simulator = us,
                               !.use_statevector_gpu = g1, !.use_unitary_gpu = g2,
                               !.use_density_matrix_gpu = g3]
    /\ pc' = "ready"
    /\ last' = "edit"
    /\ UNCHANGED <<backends, stdout, outfile, sink, handles, calls, raised, ret,
                   figures, clock, jobs, args, idx, EXITVAL>>

\* the caller runs choose_backend() on the instance as it is; an exception
\* of the call before was the caller's to handle
ChooseBackendAgain ==
    /\ pc = "ready"
    /\ \E acct \in Accounts : Set(choose_backend([M EXCEPT !.raised = NoExc], acct))
    /\ pc' = "done"
    /\ idx' = idx + 1
    /\ last' = "choose_backend"
    /\ UNCHANGED <<backends, ret, args, EXITVAL>>

InitReuse ==
    /\ backends = <<Sim32, Dev5, Dev7>>
    /\ \E kw \in KindConfigs : Start(Fresh(kw))

NextReuse ==
    \/ ChooseBackendAgain
    \/ EditMembers

SpecReuse == InitReuse /\ [][NextReuse]_vars


-----------------------------------------------------------------------------
(* Reading a written record back *)

\* the fields of a line, each field ended by ';'
RECURSIVE Fields(_, _)
Fields(line, cur) ==
    IF line = <<>> THEN <<>>
    ELSE IF Head(line) = ";" THEN <<cur>> \o Fields(Tail(line), <<>>)
    ELSE Fields(Tail(line), Append(cur, Head(line)))

Split(line) == Fields(line, <<>>)

\* the line ends with ';' unless it is empty
Terminated(line) == line = <<>> \/ line[Len(line)] = ";"

IsDigit(c) == \E d \in 0..9 : Digit(d) = c

DigitVal(c) == CHOOSE d \in 0..9 : Digit(d) = c

RECURSIVE ParseInt(_)
ParseInt(chars) ==
    IF chars = <<>> THEN 0
    ELSE 10 * ParseInt(SubSeq(chars, 1, Len(chars) - 1)) + DigitVal(chars[Len(chars)])

IsNumber(chars) == chars # <<>> /\ \A i \in 1..Len(chars) : IsDigit(chars[i])

IsKey(chars) == \A i \in 1..Len(chars) : chars[i] \in {"0", "1"}

ParseKey(chars) == [i \in 1..Len(chars) |-> IF chars[i] = "0" THEN 0 ELSE 1]

\* the description line: backend identity, a space, a timestamp
IsDescription(line, backend) ==
    /\ Len(line) = 3
    /\ line[1] = BackendStr(backend)
    /\ line[2] = " "
    /\ \E t \in 0..clock : line[3] = isoformat(t)

\* keys line and counts line are the record of the counts mapping: as many
\* counts as keys, the keys strictly ascending, each count the one of its key
IsRecordOf(keys_line, counts_line, counts) ==
    LET ks == Split(keys_line)
        cs == Split(counts_line)
    IN  /\ Terminated(keys_line) /\ Terminated(counts_line)
        /\ Len(ks) = Len(cs)
        /\ \A i \in 1..Len(ks) : IsKey(ks[i])
        /\ \A i \in 1..Len(cs) : IsNumber(cs[i])
        /\ \A i, j \in 1..Len(ks) : i < j => StrLess(ParseKey(ks[i]), ParseKey(ks[j]))
        /\ {ParseKey(ks[i]) : i \in 1..Len(ks)} = DOMAIN counts
        /\ \A i \in 1..Len(ks) : ParseInt(cs[i]) = counts[ParseKey(ks[i])]

\* the data of the circuit the last formatter call was about
ArgData == args.result_exp[args.circ]

-----------------------------------------------------------------------------
(* C1: whenever formulate_result returns a record, the record has three    *)
(* lines, as many counts as keys, the keys strictly ascending without      *)
(* duplicates, and the i-th count is the count the result holds for the    *)
(* i-th key.                                                               *)
C1_RecordAligned ==
    (last = "formulate_result" /\ ~ret.none) =>
        /\ Len(ret.csv) = 3
        /\ IsDescription(ret.csv[1], self.backend)
        /\ IsRecordOf(ret.csv[2], ret.csv[3], ArgData.counts)

\* a record of three keys and more was returned
C1_Witness ==
    /\ last = "formulate_result"
    /\ ~ret.none
    /\ Len(Split(ret.csv[2])) >= 3
    /\ \E i \in 1..3 : ParseInt(Split(ret.csv[3])[i]) = 1024

-----------------------------------------------------------------------------
(* What each rule of the backend selector is to bind *)

Listed(b) == \E i \in 1..Len(backends) : backends[i] = b

Fits(b) == b.n_qubits >= self.num_qubits

\* b is the first listed backend with enough qubits
IsFirstFit(b) ==
    \E i \in 1..Len(backends) :
        /\ backends[i] = b
        /\ Fits(b)
        /\ \A j \in 1..(i - 1) : ~Fits(backends[j])

\* b is a real device with enough qubits, and none of those is less busy
IsLeastBusy(b) ==
    /\ Listed(b) /\ Fits(b) /\ ~b.simulator
    /\ \A i \in 1..Len(backends) :
          (Fits(backends[i]) /\ ~backends[i].simulator)
              => b.pending_jobs <= backends[i].pending_jobs

Connected == \E i \in 1..Len(calls) : calls[i] = "account_fu"

(* C9: choose_backend applies its rules in one total order, and the first  *)
(* matching rule alone decides the backend it binds: use_aer, then qvm or  *)
(* qvm_as, then an explicit backend_name, then use_sim, then QI first-fit  *)
(* by qubit count, then the least busy real device. An explicit            *)
(* backend_name wins over use_sim and over both qubit-count fallbacks,     *)
(* also when the name is not listed: no later rule is tried.               *)
C9_FirstRuleDecides ==
    /\ (last = "choose_backend" /\ raised = NoExc) =>
          IF self.use_aer
          THEN /\ self.backend.family = "Aer"
               /\ self.backend.name = self.local_simulator_type
               /\ ~Connected
          ELSE IF self.qvm \/ self.qvm_as
          THEN /\ self.backend.family = "Forest"
               /\ self.backend.name = self.backend_name
               /\ ~Connected
          ELSE IF Truthy(self.backend_name)
          THEN Listed(self.backend) /\ self.backend.name = self.backend_name
          ELSE IF self.use_sim
          THEN Listed(self.backend) /\ self.backend.name = "ibmq_qasm_simulator"
          ELSE IF self.provider_name = "QI"
          THEN IsFirstFit(self.backend)
          ELSE IsLeastBusy(self.backend)
    /\ (/\ last = "choose_backend"
        /\ ~self.use_aer /\ ~self.qvm /\ ~self.qvm_as
        /\ Truthy(self.backend_name)
        /\ \A i \in 1..Len(backends) : backends[i].name # self.backend_name)
          => self.backend = NoBackend /\ raised # NoExc

\* an explicit name was bound although use_sim was set too and the first
\* fit and the least busy device are other backends
C9_Witness ==
    /\ last = "choose_backend"
    /\ raised = NoExc
    /\ self.backend_name = "dev7" /\ self.use_sim /\ self.provider_name = "QI"
    /\ self.backend = Dev7
    /\ backends = <<Sim32, Dev5, Dev7>>
    /\ self.num_qubits = 5

-----------------------------------------------------------------------------
(* Reading the output sink back, job by job *)

\* the i-th call named what has been made
Called(what) == \E i \in 1..Len(calls) : calls[i] = what

\* the lines one circuit leaves in the sink: its qasm text if asked for, and
\* the three lines of its record if the result holds counts for it
LinesOf(data) == (IF self.qasm THEN 1 ELSE 0) + (IF data.has_counts THEN 3 ELSE 0)

\* lines are, circuit by circuit in the order of circs, what the circuit
\* leaves: its qasm text, and the record of the counts result holds for it
RECURSIVE ReadAs(_, _, _)
ReadAs(lines, circs, res) ==
    IF circs = <<>> THEN lines = <<>>
    ELSE LET data == res[Head(circs)]
             e == IF self.qasm THEN 1 ELSE 0
             n == LinesOf(data)
         IN  /\ Len(lines) >= n
             /\ self.qasm => lines[1] = QasmText(Head(circs))
             /\ data.has_counts =>
                   /\ IsDescription(lines[e + 1], self.backend)
                   /\ IsRecordOf(lines[e + 2], lines[e + 3], data.counts)
             /\ ReadAs(SubSeq(lines, n + 1, Len(lines)), Tail(circs), res)

RECURSIVE LinesOfAll(_, _)
LinesOfAll(circs, res) ==
    IF circs = <<>> THEN 0
    ELSE LinesOf(res[Head(circs)]) + LinesOfAll(Tail(circs), res)

\* lines are, job by job, what the circuits of the jobs js leave
RECURSIVE JobsReadAs(_, _)
JobsReadAs(lines, js) ==
    IF js = <<>> THEN lines = <<>>
    ELSE LET n == LinesOfAll(Head(js).circs, Head(js).result)
         IN  /\ Len(lines) >= n
             /\ ReadAs(SubSeq(lines, 1, n), Head(js).circs, Head(js).result)
             /\ JobsReadAs(SubSeq(lines, n + 1, Len(lines)), Tail(js))

(* C4: when multi_exps has submitted the circuits c1..cn as one job and     *)
(* returns, the output sink holds, in the order c1..cn, what one           *)
(* process_result call per circuit leaves, and the record of ci is the     *)
(* record of the counts the one shared result holds for ci.                *)
C4_BatchInOrder ==
    (last = "multi_exps" /\ pc = "returned") =>
        /\ Len(jobs) = 1
        /\ jobs[1].circs = self.filepaths
        /\ ReadAs(sink, self.filepaths, jobs[1].result)

\* a batch of two circuits with different counts was written, the qasm
\* texts too
C4_Witness ==
    /\ last = "multi_exps" /\ pc = "returned"
    /\ self.qasm
    /\ Len(self.filepaths) = 2
    /\ jobs[1].result["f1"].has_counts /\ jobs[1].result["f2"].has_counts
    /\ jobs[1].result["f1"].counts # jobs[1].result["f2"].counts
    /\ Len(sink) = 8

(* C5: the exit code of the driver is decided by how do_it ended: 0 when   *)
(* it returned, 1 for a QisJobArgumentException, 100 for a                 *)
(* QisJobRuntimeException (a backend name not found, no suitable backend,  *)
(* a failed job, credentials not found), 200 for any other QiskitError.    *)
C5_ExitCodes ==
    (pc = "exited" /\ last = "exit") =>
        /\ raised = NoExc => EXITVAL = 0
        /\ raised.type = "QisJobArgumentException" => EXITVAL = 1
        /\ raised.type = "QisJobRuntimeException" => EXITVAL = 100
        /\ (raised # NoExc /\ raised.message[1] \in
                {"Backend", "No suitable backend found", "Job failure",
                 "QiskitError no device found", "Error loading IBMQ Account"})
              => EXITVAL = 100
        /\ IsQiskitError(raised) => EXITVAL = 200

\* the driver exited with 100 after a job of its run failed
C5_Witness ==
    /\ pc = "exited" /\ last = "exit"
    /\ EXITVAL = 100
    /\ raised.message[1] = "Job failure"
    /\ Called("execute")


\* exactly one of token and url is given to the IBMQ provider
OneOfTokenAndUrl ==
    /\ self.provider_name = "IBMQ"
    /\ Truthy(self.token) # Truthy(self.url)

(* C6, as stated: for the IBMQ provider, whenever exactly one of token and *)
(* url is set, do_it raises QisJobArgumentException, and it does so before *)
(* account_fu is called, whatever other flags are set.                     *)
C6_AlwaysRejected ==
    (last = "do_it" /\ OneOfTokenAndUrl) =>
        /\ raised.type = "QisJobArgumentException"
        /\ ~Called("account_fu")

(* C6, amended: for the IBMQ provider, whenever exactly one of token and   *)
(* url is set, do_it never calls account_fu nor any provider; it raises    *)
(* QisJobArgumentException whatever request flags are set, unless a        *)
(* version flag is set: then it shows the version and returns before the   *)
(* check on token and url is made.                                         *)
C6_RejectedUnlessVersion ==
    (last = "do_it" /\ OneOfTokenAndUrl) =>
        /\ calls = <<>>
        /\ self.provider = None /\ self.backend = NoBackend
        /\ IF self.show_qisjob_version \/ self.show_q_version
           THEN raised = NoExc /\ pc = "returned" /\ Len(stdout) = 1
           ELSE /\ raised.type = "QisJobArgumentException"
                /\ raised.retval = 1
                /\ pc = "raised"

\* a url without a token was rejected although a listing of the backends
\* was requested
C6_Witness ==
    /\ last = "do_it"
    /\ self.provider_name = "IBMQ"
    /\ self.token = None /\ self.url = "url"
    /\ self.show_backends /\ self.backend_name = "dev7"
    /\ raised.type = "QisJobArgumentException"
    /\ calls = <<>>

\* the provider was asked for the explicit backend_name and does not list it
NameNotFound ==
    /\ Truthy(self.backend_name)
    /\ Called("provider.get_backend")
    /\ \A i \in 1..Len(backends) : backends[i].name # self.backend_name

\* do_it went for the experiments: no request flag is set
NoRequest ==
    /\ ~self.show_qisjob_version /\ ~self.show_q_version
    /\ ~self.show_configuration /\ ~self.show_properties
    /\ ~self.show_backends /\ ~self.show_statuses
    /\ self.jobs_status = 0 /\ self.job_id = None /\ self.job_result = None

(* C7: when the provider does not find the explicit backend_name,          *)
(* choose_backend raises QisJobRuntimeException with retval 100 at         *)
(* selection time: do_it ends there, no backend is bound, execute is never *)
(* called in that run, and the driver exits with 100.                      *)
C7_MissingBackend ==
    NameNotFound =>
        /\ raised.type = "QisJobRuntimeException"
        /\ raised.retval = 100
        /\ self.backend = NoBackend
        /\ pc \in {"raised", "exited"}
        /\ ~Called("execute") /\ jobs = <<>>
        /\ pc = "exited" => EXITVAL = 100

\* the driver exited with 100 from a run for experiments on a backend the
\* provider does not list
C7_Witness ==
    /\ NameNotFound /\ NoRequest
    /\ self.backend_name = "nosuch"
    /\ self.filepaths # <<>>
    /\ pc = "exited" /\ EXITVAL = 100

\* the backend has reported the failure of the last job submitted: the job
\* failed and its result() was asked for
FailureReported ==
    /\ jobs # <<>> /\ jobs[Len(jobs)].status = "ERROR"
    /\ \E i \in 1..Len(calls) :
          /\ calls[i] = "job.result"
          /\ \A k \in i..Len(calls) : calls[k] # "execute"

TwoSelectors ==
    \/ self.use_qasm_simulator /\ self.use_unitary_simulator
    \/ Count(<<self.use_statevector_gpu, self.use_unitary_gpu,
               self.use_density_matrix_gpu>>) > 1

(* C10, as stated: a QisJob configured with two local-simulator kind       *)
(* selectors at once, or with two acceleration selectors at once, is       *)
(* rejected with an error before any backend lookup or provider connection *)
(* is attempted.                                                           *)
C10_TwoSelectorsRejected ==
    TwoSelectors =>
        /\ self.backend = NoBackend
        /\ calls = <<>>
        /\ last # None =>
              \/ raised # NoExc
              \/ pc = "exited" /\ EXITVAL = ArgparseExit


\* the last step was a call of a submission path, and the call has ended
Submitted == last \in {"one_exp", "multi_exps", "qasm_exp"}

(* C11, as stated: every file handle that one_exp, multi_exps or qasm_exp  *)
(* opened (the input file, the output file) is closed when the call ends,  *)
(* also when it ends by an exception.                                      *)
C11_HandlesClosed ==
    Submitted => handles = {}


(* C12, as stated: each of one_exp, multi_exps and qasm_exp, called while  *)
(* no backend is bound, raises QisJobRuntimeException saying that no       *)
(* backend is available, and execute is not called.                        *)
C12_NoBackendNoSubmission ==
    (Submitted /\ self.backend = NoBackend) =>
        /\ raised.type = "QisJobRuntimeException"
        /\ raised.retval = 100
        /\ ~Called("execute")


\* the provider family that goes with a provider name, in whatever case
FamilyOf(name) ==
    CASE name = "IBMQ" -> "IBMQ"
      [] name = "QI" -> "QI"
      [] name = "FOREST" -> "ForestBackend"
      [] name = "JKU" -> "JKUProvider"
      [] OTHER -> None

(* C13, as stated: for each of the provider names IBMQ, QI, Forest and     *)
(* JKU, in any letter case, account_fu connects the provider family of     *)
(* that name and leaves self.provider bound.                               *)
C13_ProviderBound ==
    (last = "account_fu" /\ raised = NoExc) =>
        /\ self.provider # None
        /\ self.provider = FamilyOf(self.provider_name)


\* the position in calls of the execute that the call at position i follows
Submission(i) == CHOOSE j \in 0..(i - 1) :
    /\ j > 0 => calls[j] = "execute"
    /\ \A k \in (j + 1)..(i - 1) : calls[k] # "execute"

\* the job was waited for between its submission and the call at position i
WaitedBefore(i) ==
    \E k \in (Submission(i) + 1)..(i - 1) : calls[k] = "job.result"

(* C14, as stated: with print_job set, the dictionary of the job labelled  *)
(* 'Before run:' is shown after execute has returned and before the job is *)
(* waited for, so it never needs the job to have finished, and the one     *)
(* labelled 'After run:' is shown only after the job has reached its final *)
(* state; a submission that returns has shown both.                        *)
C14_BeforeAndAfter ==
    /\ \A i \in 1..Len(calls) :
          /\ calls[i] = "Before run:" => Submission(i) > 0 /\ ~WaitedBefore(i)
          /\ calls[i] = "After run:" => Submission(i) > 0 /\ WaitedBefore(i)
    /\ (Submitted /\ self.print_job /\ raised = NoExc) =>
          Called("Before run:") /\ Called("After run:")

(* C15, as stated: when an accessor of the job raises or is not supported, *)
(* ibmqjob_to_dict leaves that field out and still returns the dictionary  *)
(* of the other fields: no exception of an accessor leaves ibmqjob_to_dict *)
(* and the dictionary is shown.                                            *)
C15_FaultsIsolated ==
    Called("ibmqjob_to_dict") =>
        /\ ~(raised.type = "AttributeError"
                /\ \E i \in 1..Len(Accessors) : raised.message = <<Accessors[i]>>)
        /\ raised.type # "IBMQJobFailureError"
        /\ (last = "do_it" /\ self.jobs_status # 0) => stdout # <<>>


\* the request whose branch do_it takes: the first one set, in the order
\* in which do_it tests them
Selected ==
    IF self.show_configuration THEN "show_configuration"
    ELSE IF self.show_properties THEN "show_properties"
    ELSE IF self.show_backends THEN "show_backends"
    ELSE IF self.show_statuses THEN "show_statuses"
    ELSE IF self.jobs_status # 0 THEN "jobs_status"
    ELSE IF Truthy(self.job_id) THEN "job_id"
    ELSE IF Truthy(self.job_result) THEN "job_result"
    ELSE "none"

NoVersionFlag == ~self.show_qisjob_version /\ ~self.show_q_version

(* C16, as stated: when do_it has answered a request (show_backends,       *)
(* show_configuration, show_properties, show_statuses, jobs_status, job_id *)
(* or job_result) without raising, it has printed what was asked for and   *)
(* has returned with no circuit submitted and no experiment to follow; for *)
(* job_id the dictionary of the retrieved job is on stdout.                *)
C16_RequestsPrintAndReturn ==
    (last = "do_it" /\ NoVersionFlag /\ Selected # "none" /\ raised = NoExc) =>
        /\ pc = "returned"
        /\ ~Called("execute") /\ ~Called("Aer.get_backend") /\ jobs = <<>>
        /\ stdout # <<>>
        /\ Selected = "job_id" =>
              \E i \in 1..Len(stdout) : stdout[i][1] = "job"


\* one of the flags that ask for jobs of earlier runs is set
JobHistoryFlag ==
    self.jobs_status # 0 \/ Truthy(self.job_id) \/ Truthy(self.job_result)

\* do_it raised its argument exception with no call to the provider
RejectedBeforeProvider ==
    /\ raised.type = "QisJobArgumentException"
    /\ pc = "raised"
    /\ ~Called("account_fu") /\ ~Called("provider.get_backend")
    /\ self.provider = None /\ self.backend = NoBackend

\* C17 as stated: whenever a job-history flag is set and backend_name is
\* not, do_it raises QisJobArgumentException before account_fu and
\* get_backend
C17_AlwaysRejected ==
    (last = "do_it" /\ JobHistoryFlag /\ ~Truthy(self.backend_name)) =>
        RejectedBeforeProvider

(* C17, amended: when a job-history flag (jobs_status, job_id, job_result) *)
(* is set without backend_name, and no version flag and none of            *)
(* show_configuration, show_properties, show_backends, show_statuses is    *)
(* set, do_it raises QisJobArgumentException before any backend            *)
(* interaction: account_fu and get_backend are not called.                 *)
C17_RejectedWhenBranchTaken ==
    (last = "do_it" /\ JobHistoryFlag /\ ~Truthy(self.backend_name)
        /\ NoVersionFlag
        /\ Selected \in {"jobs_status", "job_id", "job_result"}) =>
        RejectedBeforeProvider

\* do_it was asked for a job by its id with no backend_name and paired
\* credentials, and said that the backend is required
C17_Witness ==
    /\ last = "do_it" /\ Selected = "job_id" /\ NoVersionFlag
    /\ self.backend_name = None /\ ~unpaired(self)
    /\ RejectedBeforeProvider
    /\ raised.message =
          <<"kwargs jobs or job_id or job_result also require kwarg backend">>


\* the last call of a submission path raised before it submitted anything,
\* with a backend bound: its source did not load
LoadFailed ==
    /\ Submitted /\ raised # NoExc
    /\ self.backend # NoBackend
    /\ Len(jobs) < (IF last = "one_exp" /\ self.filepaths # <<>> THEN idx ELSE 1)

(* C18, as stated: every failure to load the source in one_exp, multi_exps *)
(* and qasm_exp (a file that cannot be read, text that does not parse, a   *)
(* failure of the translator, qc_name not defined by the snippet) is a     *)
(* QisJobRuntimeException with retval 100, never another exception.        *)
C18_LoadFailureIsRuntimeException ==
    LoadFailed => raised.type = "QisJobRuntimeException" /\ raised.retval = 100


(* C19, as stated: when do_it runs its files one by one (one_job false)    *)
(* with outfile_path set, the records are appended: everything written for *)
(* an earlier file is still in the output file after a later file or a     *)
(* later failure, and after the turns that returned the file holds the     *)
(* records of all the circuits reported so far, in file order.             *)
C19_RecordsAppended ==
    (last = "one_exp" /\ self.filepaths # <<>> /\ self.outfile_path # None) =>
        /\ outfile = sink
        /\ raised = NoExc => JobsReadAs(outfile, jobs)


\* the number of calls of execute so far
ExecuteCount == Cardinality({i \in 1..Len(calls) : calls[i] = "execute"})

(* C20: with files f1..fn and no qasm_src, every call of execute makes one *)
(* new job; with one_job do_it calls execute at most once, with the list   *)
(* of all n circuits in order, and exactly once when it returns; without   *)
(* one_job the i-th call of execute is for fi alone, and when do_it        *)
(* returns there were exactly n calls.                                     *)
C20_OneJobOrOnePerFile ==
    (last \in {"one_exp", "multi_exps"} /\ self.filepaths # <<>>) =>
        /\ ~Truthy(self.qasm_src)
        /\ ExecuteCount = Len(jobs)
        /\ self.one_job =>
              /\ last = "multi_exps"
              /\ Len(jobs) <= 1
              /\ \A i \in 1..Len(jobs) : jobs[i].circs = self.filepaths
        /\ ~self.one_job =>
              /\ last = "one_exp"
              /\ Len(jobs) <= idx
              /\ \A i \in 1..Len(jobs) : jobs[i].circs = <<self.filepaths[i]>>
        /\ pc = "returned" =>
              Len(jobs) = IF self.one_job THEN 1 ELSE Len(self.filepaths)

\* a run of two files has returned: as one job of two circuits, or as two
\* jobs of one circuit each
C20_Witness ==
    /\ pc = "returned" /\ Len(self.filepaths) = 2
    /\ \/ last = "multi_exps" /\ ExecuteCount = 1 /\ Len(jobs[1].circs) = 2
       \/ last = "one_exp" /\ ExecuteCount = 2
            /\ jobs[1].circs = <<self.filepaths[1]>>
            /\ jobs[2].circs = <<self.filepaths[2]>>


\* the branch of do_it that the flags select: the first one set, in the
\* order of the docstring of do_it
Chosen ==
    IF self.show_qisjob_version THEN "show_qisjob_version"
    ELSE IF self.show_q_version THEN "show_q_version"
    ELSE IF Selected # "none" THEN Selected
    ELSE "experiments"

Printed(token) == \E i \in 1..Len(stdout) : stdout[i][1] = token

\* the branches of do_it of which the state shows a trace: what the branch
\* printed, or the call only that branch makes
Evidenced ==
    {b \in {"show_qisjob_version"} : Printed("my_version")}
    \cup {b \in {"show_q_version"} : Printed("__qiskit_version__")}
    \cup {b \in {"show_configuration"} : Called("backend.configuration")}
    \cup {b \in {"show_properties"} : Called("backend.properties")}
    \cup {b \in {"show_backends"} : Printed(BackendStr(backends[1]))}
    \cup {b \in {"show_statuses"} : Printed("status")}
    \cup {b \in {"jobs_status"} :
            Called("backend.jobs") \/ Called("QuantumInspireAPI.get_jobs")}
    \cup {b \in {"job_id"} : Called("backend.retrieve_job") /\ ~Printed("Job")}
    \cup {b \in {"job_result"} : Printed("Job")}
    \cup {b \in {"experiments"} :
            pc = "experiments" \/ Called("Aer.get_backend") \/ Called("execute")}

Saved(tail) == \E i \in 1..Len(figures) : figures[i][Len(figures[i])] = tail

(* C22, as stated: process_result makes the images whatever the record:    *)
(* when it has returned, the histogram is saved if print_histogram is set  *)
(* and the state city plot if print_state_city is not zero, whether or not *)
(* a record was written for the circuit.                                   *)
C22_ImagesWhateverTheRecord ==
    (last = "process_result" /\ raised = NoExc) =>
        /\ self.print_histogram => Saved("histogram.png")
        /\ self.print_state_city # 0 => Saved("state_city.png")


(* C23, as stated: on every submission path the method that choose_backend *)
(* resolved (statevector_gpu, unitary_gpu or density_matrix_gpu) is the    *)
(* method option of every execute call, and no method option is passed     *)
(* when none was resolved.                                                 *)
C23_MethodPassedThrough ==
    Submitted =>
        \A i \in 1..Len(jobs) :
            jobs[i].method = IF Truthy(self.method) THEN self.method ELSE None


\* the calls made for the job that the execute at position j of calls
\* submitted: those from j up to the next execute
CallsFor(j) ==
    {k \in j..Len(calls) : \A i \in (j + 1)..k : calls[i] # "execute"}

HowOften(what, j) == Cardinality({k \in CallsFor(j) : calls[k] = what})

(* C24, as stated: for every job submitted and reported, between execute   *)
(* and the report the job monitor is attached exactly once when            *)
(* use_job_monitor is set (with the file of job_monitor_filepath when one  *)
(* is given, else on stdout) and not at all otherwise; and when it is not  *)
(* set there is exactly one wait for the job, one call of job.result().    *)
C24_OneMonitorOrOneWait ==
    (Submitted /\ raised = NoExc) =>
        \A j \in 1..Len(calls) : calls[j] = "execute" =>
            /\ HowOften("job_monitor", j) =
                  (IF self.use_job_monitor /\ ~Truthy(self.job_monitor_filepath)
                   THEN 1 ELSE 0)
            /\ HowOften("job_monitor(file)", j) =
                  (IF self.use_job_monitor /\ Truthy(self.job_monitor_filepath)
                   THEN 1 ELSE 0)
            /\ ~self.use_job_monitor => HowOften("job.result", j) = 1


\* the kind of local simulator and the method that the flags select now
FlagKind ==
    IF self.use_qasm_simulator THEN "qasm_simulator"
    ELSE IF self.use_unitary_simulator THEN "unitary_simulator"
    ELSE "statevector_simulator"

FlagMethod ==
    IF self.use_statevector_gpu THEN "statevector_gpu"
    ELSE IF self.use_unitary_gpu THEN "unitary_gpu"
    ELSE IF self.use_density_matrix_gpu THEN "density_matrix_gpu"
    ELSE None

(* C25, as stated: what choose_backend binds depends on the fields as they *)
(* are now and on the provider's listing only, also on an instance used    *)
(* again: local_simulator_type and method are those the current flags      *)
(* select, with use_aer the Aer simulator of that kind is bound, and       *)
(* otherwise the backend of backend_name or, with no name, the least busy  *)
(* device that is large enough.                                            *)
C25_CurrentFieldsDecide ==
    (last = "choose_backend" /\ raised = NoExc) =>
        /\ self.local_simulator_type = FlagKind
        /\ self.method = FlagMethod
        /\ IF self.use_aer THEN self.backend = AerBackend(FlagKind)
           ELSE IF Truthy(self.backend_name)
           THEN Listed(self.backend) /\ self.backend.name = self.backend_name
           ELSE IsLeastBusy(self.backend)


\* the submission attempts made so far: the turns of the loop over the
\* files, or the one call of multi_exps, qasm_exp or one_exp on stdin
Attempts == IF last = "one_exp" /\ self.filepaths # <<>> THEN idx ELSE 1

\* a state in which a submission path has raised
FailedAttempt == Submitted /\ raised # NoExc

(* C26: a failure during a submission is fatal and is not retried: execute *)
(* is called at most once per attempt; once a submission path has raised,  *)
(* do_it has ended with that exception, also when files are left; and from *)
(* then on nothing is loaded or submitted, the exception stays as it is    *)
(* and the driver exits with a status other than 0.                        *)
C26_FailureIsFatal ==
    /\ [](Submitted => ExecuteCount <= Attempts /\ Len(jobs) = ExecuteCount)
    /\ [](FailedAttempt => pc = "raised")
    /\ []((pc = "exited" /\ raised # NoExc) => EXITVAL # 0)
    /\ [][raised # NoExc =>
            /\ raised' = raised
            /\ jobs' = jobs /\ calls' = calls /\ idx' = idx
            /\ handles' = handles /\ sink' = sink]_vars

\* the job of the first of two files failed: do_it ended there, with one
\* call of execute and the second file untouched
C26_Witness ==
    /\ last = "one_exp" /\ ~self.one_job
    /\ Len(self.filepaths) = 2 /\ idx = 1
    /\ FailureReported /\ ExecuteCount = 1
    /\ pc = "raised"


\* choose_backend has run for provider QI with nothing else to decide the
\* backend: no local simulator, no backend_name, no use_sim
QIFallback ==
    /\ last = "choose_backend"
    /\ self.provider_name = "QI"
    /\ ~self.use_aer /\ ~self.qvm /\ ~self.qvm_as
    /\ ~Truthy(self.backend_name) /\ ~self.use_sim

(* C27: for provider QI with no backend_name and no use_sim,               *)
(* choose_backend binds the first backend, in the order of the provider's  *)
(* list, whose number of qubits is at least num_qubits; when no backend of *)
(* the list is large enough it raises QisJobRuntimeException (no suitable  *)
(* backend) and binds nothing.                                             *)
C27_QIFirstFit ==
    QIFallback =>
        IF \E i \in 1..Len(backends) : Fits(backends[i])
        THEN raised = NoExc /\ IsFirstFit(self.backend)
        ELSE /\ raised.type = "QisJobRuntimeException" /\ raised.retval = 100
             /\ raised.message = <<"No suitable backend found">>
             /\ self.backend = NoBackend

\* the first backend listed is too small and a later one, not the last that
\* would do, was bound
C27_Witness ==
    /\ QIFallback /\ raised = NoExc
    /\ ~Fits(backends[1])
    /\ self.backend = backends[2]
    /\ Len(backends) = 3 /\ Fits(backends[3])


\* do_it has been called for the local simulator with no request flag set
LocalRun ==
    /\ last \in {"do_it", "one_exp", "multi_exps", "qasm_exp", "exit"}
    /\ self.use_aer /\ NoRequest

(* C28: when use_aer is set and no request flag is, do_it never calls      *)
(* account_fu or the provider, self.provider stays None, and once do_it    *)
(* has gone on to its experiments the backend bound is the Aer simulator   *)
(* of the kind the flags select.                                           *)
C28_LocalWithoutProvider ==
    LocalRun =>
        /\ ~Called("account_fu")
        /\ ~Called("provider.backends") /\ ~Called("provider.get_backend")
        /\ self.provider = None
        /\ ((last = "do_it" /\ raised = NoExc) \/ Submitted) =>
              /\ Called("Aer.get_backend")
              /\ self.local_simulator_type = FlagKind
              /\ self.backend = AerBackend(FlagKind)

\* an experiment has run on Aer's qasm simulator and returned
C28_Witness ==
    /\ LocalRun /\ last = "one_exp" /\ pc = "returned"
    /\ self.backend = AerBackend("qasm_simulator")
    /\ jobs # <<>> /\ jobs[1].backend = self.backend
    /\ calls[1] = "Aer.get_backend"
    /\ self.provider = None


(* C29: no step of do_it, of its experiments or of the driver changes a    *)
(* field of the instance that the caller supplied; the fields that change  *)
(* are among provider, backend, local_simulator_type, method, qasm_result  *)
(* and result_exp_dict.                                                    *)
C29_ConfigurationKept ==
    [][\A f \in (DOMAIN self) \ SessionFields : self'[f] = self[f]]_vars

\* do_it has chosen a backend and its method and run an experiment, and
\* the flags that selected them are as the caller set them
C29_Witness ==
    /\ last = "one_exp" /\ pc = "returned"
    /\ self.use_aer /\ self.use_statevector_gpu
    /\ self.method = "statevector_gpu"
    /\ self.backend # NoBackend
    /\ self.result_exp_dict # <<>>


(* C30: after every call of choose_backend, also on an instance that had a *)
(* backend bound by an earlier call, self.backend is bound exactly when    *)
(* the call raised nothing: a call that returns has bound a backend, and a *)
(* call that raises leaves self.backend None.                              *)
C30_BoundIffReturned ==
    last = "choose_backend" => (self.backend # NoBackend <=> raised = NoExc)

\* the second call on the instance did not find the backend now named and
\* left none bound, after the first call had bound the local simulator
C30_Witness ==
    /\ last = "choose_backend" /\ idx = 2
    /\ calls[1] = "Aer.get_backend"
    /\ self.backend_name = "nosuch"
    /\ raised.type = "QisJobRuntimeException"
    /\ self.backend = NoBackend

====
